---- MODULE Spec2Model ----
(***************************************************************************)
(* Model of the node daemon core: the request admission pipeline that      *)
(* Daemon.createCmd installs on every API route, and Daemon.Authenticate,  *)
(* which classifies the caller of a request.                               *)
(*                                                                         *)
(* A request handler only reads the daemon's shared state (the setupChan   *)
(* latch, shutdownCtx, the certificate cache, the configuration), so one   *)
(* request in flight at a time shows every behaviour of the pipeline.      *)
(***************************************************************************)
EXTENDS Integers, Sequences, FiniteSets, TLC

VARIABLES
    setupChan,      \* "open" | "closed": d.setupChan
    shutdownCtx,    \* "live" | "canceled": d.shutdownCtx
    oidcVerifier,   \* TRUE iff d.oidcVerifier # nil
    globalConfig,   \* [trustCACertificates : BOOLEAN]: d.globalConfig
    clientCerts,    \* the certificate cache: d.clientCerts
    pc,             \* "idle" | "done" | "called": the position of the handler or caller
    served,         \* the request just served and what the handler did with it
    authCall,       \* the last direct call of Authenticate (SpecAuth)
    waitReady,      \* "live" | "canceled": d.waitReady
    initRun,        \* the position and the result of Init
    components,     \* the fields of the daemon that are set (non-nil)
    taskGroups,     \* d.tasks and d.clusterTasks
    stopRun,        \* the last run of Stop: its signal, steps and result
    timeSkew,       \* d.timeSkew
    lastNodeList,   \* d.lastNodeList
    raftNodes,      \* the raft_nodes table of the local database
    warnings,       \* the ClusterTimeSkew warning of the cluster database
    hbRun,          \* the heartbeat just handled and the answer to it
    hbCount,        \* the number of heartbeats received or sent so far
    refreshTasks,   \* the running calls of nodeRefreshTask
    clusterMembershipMutex,  \* the task holding d.clusterMembershipMutex
    globalConfigMu, \* the thread holding d.globalConfigMu
    threads,        \* the threads that use the configuration records
    SharedMountsSetup,  \* daemon.SharedMountsSetup, and who set it
    sharedMountsLock,   \* the thread holding sharedMountsLock
    shmounts,       \* the mount table at <var>/shmounts
    mountCalls,     \* the calls of setupSharedMounts
    nameRun,        \* a name taken through the functions of package project
    volumesRun,     \* Stop waiting for the unmount of the daemon storage volumes
    openRun         \* init opening the cluster database (lines 1088-1144)

\* The lifecycle of the daemon (Init, Stop).
lifeVars == <<waitReady, initRun, components, taskGroups, stopRun>>

\* The heartbeat handler and the refresh task.
hbVars == <<timeSkew, lastNodeList, raftNodes, warnings, hbRun, hbCount,
            refreshTasks, clusterMembershipMutex>>

\* The lock of the configuration records.
muVars == <<globalConfigMu, threads>>

\* The package-level state (the shared mounts, the names of package project)
\* and the two passages of Stop and init that are followed statement by
\* statement.
libVars == <<SharedMountsSetup, sharedMountsLock, shmounts, mountCalls, nameRun,
             volumesRun, openRun>>

vars == <<setupChan, shutdownCtx, oidcVerifier, globalConfig, clientCerts,
          pc, served, authCall, lifeVars, hbVars, muVars, libVars>>

(***************************************************************************)
(* Bounds and input alphabets.                                             *)
(***************************************************************************)

\* Longest chain of peer certificates of a direct call of Authenticate.
MaxPeerCerts == 2

\* Longest chain of peer certificates of a request to a route.
MaxRouteCerts == 1

\* Certificates, named by their fingerprints.
Fingerprints == {"f1", "f2", "f3"}

\* Certificates signed by the cluster CA (trusted when core.trust_ca_certificates).
CASigned == {"f2"}

Min(S) == CHOOSE x \in S : \A y \in S : x <= y

Range(f) == {f[i] : i \in DOMAIN f}

SeqsUpTo(S, n) == UNION {[1..k -> S] : k \in 0..n}

(***************************************************************************)
(* The certificate cache (certificate.Cache): per kind the trusted         *)
(* fingerprints, and per fingerprint the projects the key is restricted to.*)
(***************************************************************************)

TrustTableA ==
    [server   |-> {"f1"},
     metrics  |-> {"f3"},
     client   |-> {"f2", "f3"},
     projects |-> [f \in {"f3"} |-> <<"p1", "p2">>]]

TrustTableB ==
    [server   |-> {},
     metrics  |-> {"f1"},
     client   |-> {"f1", "f3"},
     projects |-> [f \in {"f1", "f2"} |-> IF f = "f1" THEN <<>> ELSE <<"p1", "p1">>]]

TrustTables == {TrustTableA, TrustTableB}

(***************************************************************************)
(* Requests.                                                               *)
(***************************************************************************)

Methods == {"GET", "HEAD", "PUT", "POST", "DELETE", "PATCH"}

\* The methods of the requests sent to the routes: GET and POST, one more
\* method with an APIEndpoint field, and one without.
RequestMethods == {"GET", "POST", "PUT", "OPTIONS"}

\* APIEndpointAction: Handler and AccessHandler are TRUE when non-nil.
Actions == [Handler : BOOLEAN, AccessHandler : BOOLEAN, AllowUntrusted : BOOLEAN]

\* The zero APIEndpointAction{} of a method the endpoint does not register.
NoAction == [Handler |-> FALSE, AccessHandler |-> FALSE, AllowUntrusted |-> FALSE]

\* An action open to everybody.
OpenAction == [Handler |-> TRUE, AccessHandler |-> FALSE, AllowUntrusted |-> TRUE]

\* Endpoint paths, as their "/"-separated segments.
InternalPaths == {<<"ready">>, <<"cluster", "accept">>}

PublicPaths == {<<>>, <<"events">>, <<"operations">>, <<"operations", "{id}">>,
                <<"metrics">>, <<"instances">>}

\* The routes of the API: (version, path).
Routes == ({"internal"} \X InternalPaths) \cup ({"1.0"} \X PublicPaths)

\* The other of GET and POST.
Other(m) == IF m = "GET" THEN "POST" ELSE "GET"

\* An APIEndpoint at path p that registers action a for method m, and an
\* action open to everybody for the other of GET and POST.
Endpoint(p, m, a) ==
    LET field(x) == IF m = x THEN a ELSE IF Other(m) = x THEN OpenAction ELSE NoAction
    IN  [Path   |-> p,
         Get    |-> field("GET"),
         Head   |-> field("HEAD"),
         Put    |-> field("PUT"),
         Post   |-> field("POST"),
         Delete |-> field("DELETE"),
         Patch  |-> field("PATCH")]

\* The action an endpoint registers for a method (none for an unknown method).
ActionFor(c, m) ==
    CASE m = "GET"    -> c.Get
      [] m = "HEAD"   -> c.Head
      [] m = "PUT"    -> c.Put
      [] m = "POST"   -> c.Post
      [] m = "DELETE" -> c.Delete
      [] m = "PATCH"  -> c.Patch
      [] OTHER        -> NoAction

\* createCmd: the URI a route is registered at, as segments.
RouteURI(version, c) ==
    IF c.Path = <<>> THEN <<version>>
    ELSE IF version # "" THEN <<version>> \o c.Path
    ELSE c.Path

\* What a connection presents.  The Unix socket and the guest-API socket carry
\* no TLS; a TCP connection may or may not.
PlainConnections ==
    [RemoteAddr : {"@", "@dev_incus", "10.0.0.2:443"}, TLS : {FALSE},
     PeerCertificates : {<<>>}]

TLSConnections(n) ==
    [RemoteAddr : {"10.0.0.2:443"}, TLS : {TRUE},
     PeerCertificates : SeqsUpTo(Fingerprints, n)]

\* A request: the connection, the method, the URL path, whether the
\* X-Incus-authenticated header is non-empty, whether the User-Agent is the
\* cluster notifier's, whether it carries an OIDC bearer token.
Request(conn, method, path, claimed, style) ==
    [RemoteAddr       |-> conn.RemoteAddr,
     TLS              |-> conn.TLS,
     PeerCertificates |-> conn.PeerCertificates,
     Method           |-> method,
     URLPath          |-> path,
     XIncusAuthenticated |-> claimed,
     ClusterNotifier  |-> style = "notifier",
     OIDCBearer       |-> style = "oidc"]

Styles == {"plain", "notifier", "oidc"}

\* What the environment answers while a request is handled.
Envs ==
    [credErr : BOOLEAN,     \* ucred.GetCredFromContext fails
     lookupErr : BOOLEAN,   \* user.LookupId fails
     oidcValid : BOOLEAN,   \* the verifier accepts the token
     debug : BOOLEAN,       \* daemon.Debug
     json : BOOLEAN,        \* localUtil.IsJSONRequest(r)
     copyErr : BOOLEAN,     \* io.Copy of the body fails
     accessOK : BOOLEAN]    \* the AccessHandler returns EmptySyncResponse

\* The environments that can make a difference to request r on an endpoint
\* with action a: peer credentials are looked up on the Unix socket only, the
\* verifier is asked about bearer tokens only, the body is dumped for
\* non-GET requests only, the access handler is called only if there is one.
EnvsFor(r, a) ==
    {e \in Envs :
        /\ (e.credErr \/ e.lookupErr) => r.RemoteAddr = "@"
        /\ ~(e.credErr /\ e.lookupErr)
        /\ ~e.oidcValid => r.OIDCBearer
        /\ e.debug = e.json /\ e.json = e.copyErr
        /\ e.debug => r.Method # "GET"
        /\ ~e.accessOK => a.AccessHandler}

(***************************************************************************)
(* Daemon.Authenticate.                                                    *)
(***************************************************************************)

\* localUtil.CheckTrustState: the certificate is in the trust set, or CA
\* certificates are trusted and the cluster CA signed it.
CheckTrustState(cert, trustedCerts, trustCACertificates) ==
    [trusted     |-> cert \in trustedCerts
                     \/ (trustCACertificates /\ cert \in CASigned),
     fingerprint |-> cert]

\* "for _, i := range certs { if trusted { return } }": the index of the first
\* certificate the trust set accepts, 0 when the loop falls through.
FirstTrusted(certs, trustedCerts, trustCACertificates) ==
    LET hits == {i \in 1..Len(certs) :
                   CheckTrustState(certs[i], trustedCerts, trustCACertificates).trusted}
    IN  IF hits = {} THEN 0 ELSE Min(hits)

isClusterNotification(r) == r.ClusterNotifier

IsRequest(r) == r.OIDCBearer

AuthResult(trusted, username, protocol, err, consulted) ==
    [trusted |-> trusted, username |-> username, protocol |-> protocol,
     err |-> err, consulted |-> consulted]

\* The trust sets a loop over the peer certificates has looked into.
Looked(certs, kind) == IF Len(certs) > 0 THEN <<kind>> ELSE <<>>

\* Authenticate, lines 293-301: the peer certificates against the server-trust
\* set.  d is the daemon state the call reads: [oidcVerifier, globalConfig,
\* clientCerts].
ServerTrust(d, r) ==
    IF r.TLS
    THEN [hit    |-> FirstTrusted(r.PeerCertificates, d.clientCerts.server, FALSE),
          looked |-> Looked(r.PeerCertificates, "server")]
    ELSE [hit |-> 0, looked |-> <<>>]

\* TLSTrust with the path test forgotten: the metrics-trust set is consulted
\* on every path.
TLSTrustOnEveryPath(d, r) ==
    LET certs == r.PeerCertificates
        ca == d.globalConfig.trustCACertificates
        met == FirstTrusted(certs, d.clientCerts.metrics, ca)
        l2 == Looked(certs, "metrics")
        cli == FirstTrusted(certs, d.clientCerts.client, ca)
    IN  IF met > 0 THEN [hit |-> met, looked |-> l2]
        ELSE [hit |-> cli, looked |-> l2 \o Looked(certs, "client")]

\* Authenticate, lines 346-364: the peer certificates against the metrics-trust
\* set on /1.0/metrics, then against the client-trust set.
TLSTrust(d, r) ==
    LET certs == r.PeerCertificates
        ca == d.globalConfig.trustCACertificates
        onMetrics == r.URLPath = <<"1.0", "metrics">>
        met == IF onMetrics THEN FirstTrusted(certs, d.clientCerts.metrics, ca) ELSE 0
        l2 == IF onMetrics THEN Looked(certs, "metrics") ELSE <<>>
        cli == FirstTrusted(certs, d.clientCerts.client, ca)
    IN  IF met > 0 THEN [hit |-> met, looked |-> l2]
        ELSE [hit |-> cli, looked |-> l2 \o Looked(certs, "client")]

\* w is TRUE when the caller passes a response writer (createCmd does,
\* checkTrustedClient does not).
Authenticate(d, w, r, env) ==
    LET certs == r.PeerCertificates
        srv == ServerTrust(d, r)
        tls == TLSTrust(d, r)
    IN  IF srv.hit > 0
        THEN AuthResult(TRUE, certs[srv.hit], "cluster", "", srv.looked)
        ELSE IF r.RemoteAddr = "@" /\ ~r.TLS
        THEN IF ~w THEN AuthResult(TRUE, "", "unix", "", srv.looked)
             ELSE IF env.credErr THEN AuthResult(FALSE, "", "", "ucred", srv.looked)
             ELSE IF env.lookupErr
             THEN AuthResult(TRUE, "uid=1000", "unix", "", srv.looked)
             ELSE AuthResult(TRUE, "user", "unix", "", srv.looked)
        ELSE IF r.RemoteAddr = "@dev_incus"
        THEN AuthResult(FALSE, "", "", "devIncus", srv.looked)
        ELSE IF isClusterNotification(r)
        THEN AuthResult(FALSE, "", "", "notification", srv.looked)
        ELSE IF ~r.TLS
        THEN AuthResult(FALSE, "", "", "noTLS", srv.looked)
        ELSE IF d.oidcVerifier /\ IsRequest(r)
        THEN IF env.oidcValid
             THEN AuthResult(TRUE, "oidc-user", "oidc", "", srv.looked)
             ELSE AuthResult(FALSE, "", "", "AuthError", srv.looked)
        ELSE IF tls.hit > 0
        THEN AuthResult(TRUE, certs[tls.hit], "tls", "", srv.looked \o tls.looked)
        ELSE AuthResult(FALSE, "", "", "", srv.looked \o tls.looked)

(***************************************************************************)
(* The route handler installed by Daemon.createCmd, as the chain of its     *)
(* steps.  A run s carries what the handler reads (the daemon state d, the  *)
(* route's version and endpoint c, the request r, the environment env) and  *)
(* what it has done so far: the steps entered (trace), the result of        *)
(* Authenticate, the context attached to the request, the response.         *)
(***************************************************************************)

NoAuth == AuthResult(FALSE, "", "", "", <<>>)

\* auth.UserAccess: Projects is the key set of the map.
UserAccess(admin, projects) == [Admin |-> admin, Projects |-> projects]

\* A request context without authentication data.
NoCtx == [set |-> FALSE, username |-> "", protocol |-> "",
          access |-> UserAccess(FALSE, {})]

Start(d, version, c, r, env) ==
    [d |-> d, version |-> version, c |-> c, r |-> r, env |-> env,
     done |-> FALSE, status |-> 0, error |-> "", oidcHeaders |-> FALSE,
     trace |-> <<>>, auth |-> NoAuth, ctx |-> NoCtx, accessResp |-> "none"]

\* response.X(...).Render(w); return
Render(s, status, error) ==
    [s EXCEPT !.done = TRUE, !.status = status, !.error = error]

Enter(s, step) == [s EXCEPT !.trace = Append(@, step)]

\* SetupGate exempting every request to the internal version, local or not.
SetupGateAnyInternal(s) ==
    IF s.done THEN s
    ELSE IF ~(s.version = "internal") /\ s.d.setupChan # "closed"
    THEN Render(Enter(s, "setupGate"), 503, "Daemon setup in progress")
    ELSE Enter(s, "setupGate")

\* Lines 435-445: block public API requests until setupChan is closed.
SetupGate(s) ==
    IF s.done THEN s
    ELSE IF ~(s.r.RemoteAddr = "@" /\ s.version = "internal")
            /\ s.d.setupChan # "closed"
    THEN Render(Enter(s, "setupGate"), 503, "Daemon setup in progress")
    ELSE Enter(s, "setupGate")

\* AuthenticateStep treating an OIDC AuthError like any other error: the
\* request goes on as untrusted.
AuthenticateStepNoUnauthorized(s) ==
    IF s.done THEN s
    ELSE [Enter(s, "Authenticate") EXCEPT !.auth = Authenticate(s.d, TRUE, s.r, s.env)]

\* Lines 447-460: authentication; an OIDC AuthError ends the request with 401.
AuthenticateStep(s) ==
    IF s.done THEN s
    ELSE LET a == Authenticate(s.d, TRUE, s.r, s.env)
             s1 == [Enter(s, "Authenticate") EXCEPT !.auth = a]
         IN  IF a.err = "AuthError"
             THEN Render([s1 EXCEPT !.oidcHeaders = s.d.oidcVerifier], 401, "")
             ELSE s1

\* InternalCheck letting every trusted TLS client through, whatever the path.
InternalCheckAnyPath(s) ==
    IF s.done THEN s
    ELSE IF s.version = "internal" /\ s.auth.protocol \notin {"unix", "cluster"}
            /\ (~s.auth.trusted \/ s.auth.protocol # "tls")
    THEN Render(Enter(s, "internalCheck"), 403, "")
    ELSE Enter(s, "internalCheck")

\* Lines 462-470: reject internal queries of remote, non-cluster, clients.
InternalCheck(s) ==
    IF s.done THEN s
    ELSE IF s.version = "internal" /\ s.auth.protocol \notin {"unix", "cluster"}
            /\ (~s.auth.trusted \/ s.c.Path # <<"cluster", "accept">>
                \/ s.auth.protocol # "tls")
    THEN Render(Enter(s, "internalCheck"), 403, "")
    ELSE Enter(s, "internalCheck")

\* GetUserAccess forgetting to drop the admin flag of a restricted client.
GetUserAccessKeepsAdmin(d, username, protocol) ==
    IF protocol = "cluster" THEN UserAccess(TRUE, {})
    ELSE IF protocol = "tls" /\ username \in DOMAIN d.clientCerts.projects
    THEN UserAccess(TRUE, Range(d.clientCerts.projects[username]))
    ELSE UserAccess(TRUE, {})

\* Lines 484-515: the user access data of a trusted request.
GetUserAccess(d, username, protocol) ==
    IF protocol = "cluster" THEN UserAccess(TRUE, {})
    ELSE IF protocol = "tls" /\ username \in DOMAIN d.clientCerts.projects
    THEN UserAccess(FALSE, Range(d.clientCerts.projects[username]))
    ELSE UserAccess(TRUE, {})

\* Line 479.
UntrustedOk(c, r) ==
    (r.Method = "GET" /\ c.Get.AllowUntrusted)
    \/ (r.Method = "POST" /\ c.Post.AllowUntrusted)

\* TrustStep not looking at the X-Incus-authenticated header.
TrustStepIgnoresHeader(s) ==
    IF s.done THEN s
    ELSE IF s.auth.trusted
    THEN [Enter(s, "trustCheck") EXCEPT
            !.ctx = [set |-> TRUE, username |-> s.auth.username,
                     protocol |-> s.auth.protocol,
                     access |-> GetUserAccess(s.d, s.auth.username, s.auth.protocol)]]
    ELSE IF UntrustedOk(s.c, s.r)
    THEN Enter(s, "trustCheck")
    ELSE Render([Enter(s, "trustCheck") EXCEPT !.oidcHeaders = s.d.oidcVerifier],
                403, "")

\* Lines 479-547: a trusted request gets its context; an untrusted one goes on
\* only if the action allows it and the client does not claim authentication.
TrustStep(s) ==
    IF s.done THEN s
    ELSE IF s.auth.trusted
    THEN [Enter(s, "trustCheck") EXCEPT
            !.ctx = [set |-> TRUE, username |-> s.auth.username,
                     protocol |-> s.auth.protocol,
                     access |-> GetUserAccess(s.d, s.auth.username, s.auth.protocol)]]
    ELSE IF UntrustedOk(s.c, s.r) /\ ~s.r.XIncusAuthenticated
    THEN Enter(s, "trustCheck")
    ELSE Render([Enter(s, "trustCheck") EXCEPT !.oidcHeaders = s.d.oidcVerifier],
                403, "")

\* Lines 549-562: in debug mode the JSON body of a non-GET request is buffered.
DebugDump(s) ==
    IF s.done THEN s
    ELSE IF s.env.debug /\ s.r.Method # "GET" /\ s.env.json /\ s.env.copyErr
    THEN Render(s, 500, "")
    ELSE s

\* allowedDuringShutdown without the exception for internal calls.
allowedDuringShutdownNoInternal(version, c, r) ==
    \/ c.Path = <<>> \/ c.Path = <<"events">> \/ c.Path = <<"operations">>
    \/ (Len(c.Path) > 1 /\ c.Path[1] = "operations")
    \/ r.Method = "GET"

\* Lines 574-588.
allowedDuringShutdown(version, c, r) ==
    \/ version = "internal"
    \/ c.Path = <<>> \/ c.Path = <<"events">> \/ c.Path = <<"operations">>
    \/ (Len(c.Path) > 1 /\ c.Path[1] = "operations")
    \/ r.Method = "GET"

\* Lines 590-593.
ShutdownGate(s) ==
    IF s.done THEN s
    ELSE IF s.d.shutdownCtx = "canceled" /\ ~allowedDuringShutdown(s.version, s.c, s.r)
    THEN Render(Enter(s, "shutdownGate"), 503, "Shutting down")
    ELSE Enter(s, "shutdownGate")

\* auth.Authorizer.UserIsAdmin of the "tls" authorizer: the access record of
\* the request context, if any, says admin.
UserIsAdmin(ctx) == ctx.set /\ ctx.access.Admin

\* Line 603: action.AccessHandler(d, r).  The answer is EmptySyncResponse, or
\* a response of the access handler's own (rendered here as 403).
AccessHandler(s) ==
    [Enter(s, "AccessHandler") EXCEPT
        !.accessResp = IF s.env.accessOK THEN "EmptySyncResponse" ELSE "response"]

\* AccessCheck going on to the handler whatever the access handler answers.
AccessCheckIgnoresAnswer(s, action) ==
    IF action.AccessHandler
    THEN AccessHandler(s)
    ELSE IF ~action.AllowUntrusted
    THEN IF ~UserIsAdmin(s.ctx)
         THEN Render(Enter(s, "UserIsAdmin"), 403, "")
         ELSE Enter(s, "UserIsAdmin")
    ELSE s

\* Lines 600-612: access control of an action that has a handler.
AccessCheck(s, action) ==
    IF action.AccessHandler
    THEN LET s1 == AccessHandler(s)
         IN  IF s1.accessResp # "EmptySyncResponse"
             THEN Render(s1, 403, "AccessHandler")
             ELSE s1
    ELSE IF ~action.AllowUntrusted
    THEN IF ~UserIsAdmin(s.ctx)
         THEN Render(Enter(s, "UserIsAdmin"), 403, "")
         ELSE Enter(s, "UserIsAdmin")
    ELSE s

\* handleRequest checking access before it looks for the handler.
handleRequestAccessFirst(s, action) ==
    LET s1 == AccessCheck(s, action)
    IN  IF s1.done THEN s1
        ELSE IF ~action.Handler THEN Render(s1, 501, "")
        ELSE Render(Enter(s1, "Handler"), 200, "")

\* Lines 595-614.
handleRequest(s, action) ==
    IF ~action.Handler THEN Render(s, 501, "")
    ELSE LET s1 == AccessCheck(s, action)
         IN  IF s1.done THEN s1
             ELSE Render(Enter(s1, "Handler"), 200, "")

\* Lines 616-631.
Dispatch(s) ==
    IF s.done THEN s
    ELSE IF s.r.Method \in Methods
    THEN handleRequest(s, ActionFor(s.c, s.r.Method))
    ELSE Render(s, 404, "Method not found")

\* RouteHandler authenticating before it looks at setupChan.
RouteHandlerAuthFirst(d, version, c, r, env) ==
    Dispatch(ShutdownGate(DebugDump(TrustStep(InternalCheck(
        SetupGate(AuthenticateStep(Start(d, version, c, r, env))))))))

\* Lines 432-641: the handler of the route (version, c).
RouteHandler(d, version, c, r, env) ==
    Dispatch(ShutdownGate(DebugDump(TrustStep(InternalCheck(
        AuthenticateStep(SetupGate(Start(d, version, c, r, env))))))))

(***************************************************************************)
(* The daemon as the routes see it.                                        *)
(***************************************************************************)

\* What the handler keeps of a run: the request, the route and what was done.
Outcome(s) ==
    [version |-> s.version, c |-> s.c, r |-> s.r,
     status |-> s.status, error |-> s.error, oidcHeaders |-> s.oidcHeaders,
     trace |-> s.trace, auth |-> s.auth, ctx |-> s.ctx, accessResp |-> s.accessResp]

NoRequest ==
    Request([RemoteAddr |-> "", TLS |-> FALSE, PeerCertificates |-> <<>>],
            "", <<>>, FALSE, "plain")

NoOutcome ==
    [version |-> "", c |-> Endpoint(<<>>, "", NoAction), r |-> NoRequest,
     status |-> 0, error |-> "", oidcHeaders |-> FALSE,
     trace |-> <<>>, auth |-> NoAuth, ctx |-> NoCtx, accessResp |-> "none"]

NoCall == [w |-> FALSE, r |-> NoRequest, res |-> NoAuth]

\* The daemon state a handler reads.
Daemon ==
    [setupChan |-> setupChan, shutdownCtx |-> shutdownCtx,
     oidcVerifier |-> oidcVerifier, globalConfig |-> globalConfig,
     clientCerts |-> clientCerts]

UnsetConfig == [loaded |-> FALSE, trustCACertificates |-> FALSE]

\* No error (a nil error of Stop).
NoError == [first |-> "", more |-> 0]

\* A run of Stop in which nothing fails and no pool is listed.
CalmStop ==
    [handoverErr |-> FALSE, instances |-> "loaded", running |-> FALSE,
     volumesTimeout |-> FALSE, listing |-> "ok", pools |-> <<>>, failing |-> {}]

\* Stop has not run.
NoStopRun ==
    [calls |-> 0, sig |-> "", env |-> CalmStop, log |-> <<>>, errs |-> <<>>,
     ret |-> NoError]

\* Init has not been called.  phase counts the phases of init that are done;
\* err is the phase that failed ("" for none); ret is what Init returned
\* ("pending" before it returns, "" for nil).
NoInitRun ==
    [pc |-> "new", phase |-> 0, err |-> "", ret |-> "pending", stopCalls |-> 0,
     clustered |-> FALSE, seccompListener |-> FALSE]

\* task.Group{}: the zero value of the two task groups.
NewTaskGroups == [tasks |-> "new", clusterTasks |-> "new"]

\* No heartbeat is being handled.
NoHeartbeat == [status |-> 0]

\* d.lastNodeList == nil.
NoNodeList == [FullStateList |-> FALSE]

\* No ClusterTimeSkew warning of this member in the cluster database.  status
\* is "none", "new" or "resolved"; upserts counts the insertions since timeSkew
\* was last false.
NoWarnings == [status |-> "none", upserts |-> 0]

\* No call of nodeRefreshTask is running.
NoTask == [pc |-> "none"]

\* The parts of the daemon a specification does not exercise stay as newDaemon
\* leaves them.
QuietLife ==
    /\ waitReady = "live"
    /\ initRun = NoInitRun
    /\ components = {}
    /\ taskGroups = NewTaskGroups
    /\ stopRun = NoStopRun

QuietHB ==
    /\ timeSkew = FALSE
    /\ lastNodeList = NoNodeList
    /\ raftNodes = {}
    /\ warnings = NoWarnings
    /\ hbRun = NoHeartbeat
    /\ hbCount = 0
    /\ refreshTasks = <<>>
    /\ clusterMembershipMutex = 0

QuietMu ==
    /\ globalConfigMu = ""
    /\ threads = <<>>

\* daemon.SharedMountsSetup is false until setupSharedMounts sets it.
FlagUnset == [set |-> FALSE, by |-> ""]

\* Nothing is mounted at <var>/shmounts; tmpfs counts the tmpfs mounts that
\* succeeded.
NoMount == [mounted |-> FALSE, shared |-> FALSE, tmpfs |-> 0]

\* No name is being converted.
NoNameRun == [pc |-> "none"]

\* Stop is not waiting for the daemon storage volumes.
NoVolumesRun == [pc |-> "none"]

\* init is not opening the cluster database.
NoOpenRun == [pc |-> "none"]

\* Nobody calls setupSharedMounts or the functions of package project.
QuietLib ==
    /\ SharedMountsSetup = FlagUnset
    /\ sharedMountsLock = ""
    /\ shmounts = NoMount
    /\ mountCalls = <<>>
    /\ nameRun = NoNameRun
    /\ volumesRun = NoVolumesRun
    /\ openRun = NoOpenRun

\* newDaemon, and init up to the first listener: setupChan open, shutdownCtx
\* live, the certificate cache filled from the local trust table (line 976),
\* the cluster configuration not loaded yet.
Init ==
    /\ setupChan = "open"
    /\ shutdownCtx = "live"
    /\ oidcVerifier = FALSE
    /\ globalConfig = UnsetConfig
    /\ clientCerts \in TrustTables
    /\ pc = "idle"
    /\ served = NoOutcome
    /\ authCall = NoCall
    /\ QuietLife /\ QuietHB /\ QuietMu /\ QuietLib

\* init, lines 1199-1303: the cluster configuration is loaded and the OIDC
\* verifier is created when the configuration names an issuer.
LoadConfig ==
    /\ pc = "idle"
    /\ setupChan = "open"
    /\ shutdownCtx = "live"
    /\ ~globalConfig.loaded
    /\ \E ca \in BOOLEAN, oidc \in BOOLEAN :
         /\ globalConfig' = [loaded |-> TRUE, trustCACertificates |-> ca]
         /\ oidcVerifier' = oidc
    /\ UNCHANGED <<setupChan, shutdownCtx, clientCerts, pc, served, authCall>>
    /\ UNCHANGED <<lifeVars, hbVars, muVars, libVars>>

\* init, line 1454: close(d.setupChan).
CloseSetupChan ==
    /\ pc = "idle"
    /\ setupChan = "open"
    /\ shutdownCtx = "live"
    /\ globalConfig.loaded
    /\ setupChan' = "closed"
    /\ UNCHANGED <<shutdownCtx, oidcVerifier, globalConfig, clientCerts, pc, served,
                   authCall>>
    /\ UNCHANGED <<lifeVars, hbVars, muVars, libVars>>

\* Stop, line 1575: d.shutdownCancel().
ShutdownCancel ==
    /\ pc = "idle"
    /\ shutdownCtx = "live"
    /\ shutdownCtx' = "canceled"
    /\ UNCHANGED <<setupChan, oidcVerifier, globalConfig, clientCerts, pc, served,
                   authCall>>
    /\ UNCHANGED <<lifeVars, hbVars, muVars, libVars>>

\* updateCertificateCache (lines 1445, 1958): the cache is rebuilt from the
\* database.
UpdateCertificateCache ==
    /\ pc = "idle"
    /\ \E t \in TrustTables : t # clientCerts /\ clientCerts' = t
    /\ UNCHANGED <<setupChan, shutdownCtx, oidcVerifier, globalConfig, pc, served,
                   authCall>>
    /\ UNCHANGED <<lifeVars, hbVars, muVars, libVars>>

\* The requests sent to the route (version, c).
RouteRequests(version, c) ==
    {Request(conn, m, RouteURI(version, c), claimed, "plain") :
        conn \in PlainConnections, m \in RequestMethods, claimed \in BOOLEAN}
    \cup
    {Request(conn, m, RouteURI(version, c), claimed, style) :
        conn \in TLSConnections(MaxRouteCerts), m \in RequestMethods,
        claimed \in BOOLEAN, style \in Styles}

\* A request arrives on a route and its handler runs to the end.  The endpoint
\* registers action a for method m; the request uses m, or a method no
\* endpoint has an action for.
Serve ==
    /\ pc = "idle"
    /\ \E route \in Routes, m \in RequestMethods \cap Methods, a \in Actions :
         LET version == route[1]
             c == Endpoint(route[2], m, a)
         IN  \E r \in {q \in RouteRequests(version, c) :
                          q.Method = m
                          \/ (q.Method \notin Methods /\ m = "GET" /\ a = NoAction)} :
               \E env \in EnvsFor(r, a) :
                 served' = Outcome(RouteHandler(Daemon, version, c, r, env))
    /\ pc' = "done"
    /\ UNCHANGED <<setupChan, shutdownCtx, oidcVerifier, globalConfig, clientCerts,
                   authCall>>
    /\ UNCHANGED <<lifeVars, hbVars, muVars, libVars>>

\* The response is written and the handler returns.
Finish ==
    /\ pc = "done"
    /\ pc' = "idle"
    /\ served' = NoOutcome
    /\ UNCHANGED <<setupChan, shutdownCtx, oidcVerifier, globalConfig, clientCerts,
                   authCall>>
    /\ UNCHANGED <<lifeVars, hbVars, muVars, libVars>>

Next ==
    \/ LoadConfig
    \/ CloseSetupChan
    \/ ShutdownCancel
    \/ UpdateCertificateCache
    \/ Serve
    \/ Finish

Spec == Init /\ [][Next]_vars

(***************************************************************************)
(* Authenticate called directly (as checkTrustedClient does), on requests  *)
(* with longer certificate chains and every trust table over two of the    *)
(* certificates.                                                           *)
(***************************************************************************)

AuthTrustTables ==
    [server : SUBSET {"f1", "f2"}, metrics : SUBSET {"f1", "f2"},
     client : SUBSET {"f1", "f2"}, projects : {<<>>}]

AuthPaths == {<<"1.0">>, <<"1.0", "metrics">>, <<"1.0", "instances">>}

AuthRequests ==
    {Request(conn, "GET", path, FALSE, style) :
        conn \in PlainConnections \cup TLSConnections(MaxPeerCerts),
        path \in AuthPaths, style \in Styles}

InitAuth ==
    /\ setupChan = "closed"
    /\ shutdownCtx = "live"
    /\ oidcVerifier \in BOOLEAN
    /\ globalConfig \in [loaded : {TRUE}, trustCACertificates : BOOLEAN]
    /\ clientCerts \in AuthTrustTables
    /\ pc = "idle"
    /\ served = NoOutcome
    /\ authCall = NoCall
    /\ QuietLife /\ QuietHB /\ QuietMu /\ QuietLib

CallAuthenticate ==
    /\ pc = "idle"
    /\ \E r \in AuthRequests, w \in BOOLEAN :
         \E env \in EnvsFor(r, NoAction) :
           authCall' = [w |-> w, r |-> r, res |-> Authenticate(Daemon, w, r, env)]
    /\ pc' = "called"
    /\ UNCHANGED <<setupChan, shutdownCtx, oidcVerifier, globalConfig, clientCerts,
                   served>>
    /\ UNCHANGED <<lifeVars, hbVars, muVars, libVars>>

\* The caller has used the result.
ReturnAuthenticate ==
    /\ pc = "called"
    /\ pc' = "idle"
    /\ authCall' = NoCall
    /\ UNCHANGED <<setupChan, shutdownCtx, oidcVerifier, globalConfig, clientCerts,
                   served>>
    /\ UNCHANGED <<lifeVars, hbVars, muVars, libVars>>

NextAuth ==
    \/ CallAuthenticate
    \/ ReturnAuthenticate

SpecAuth == InitAuth /\ [][NextAuth]_vars

(***************************************************************************)
(* Properties of the admission pipeline.  They speak about the request     *)
(* just served (pc = "done"); the daemon state is the one the handler read. *)
(***************************************************************************)

Has(trace, step) == \E i \in 1..Len(trace) : trace[i] = step

Last(trace) == trace[Len(trace)]

\* The handler or the access handler of the endpoint was called.
Invoked(o) == Has(o.trace, "Handler") \/ Has(o.trace, "AccessHandler")

\* The request is a local-Unix call to the "internal" version.
UnixInternal(o) == o.r.RemoteAddr = "@" /\ o.version = "internal"

SetupInProgress(o) == o.status = 503 /\ o.error = "Daemon setup in progress"

\* C1: a request is answered 503 "Daemon setup in progress" if and only if
\* setupChan is not closed and the request is not a local-Unix call to the
\* internal version; then nothing but the setup gate has run (no Authenticate,
\* no access handler, no handler).
ThmC1 ==
    pc = "done" =>
        /\ SetupInProgress(served) <=> (setupChan # "closed" /\ ~UnixInternal(served))
        /\ SetupInProgress(served) => served.trace = <<"setupGate">>
        /\ UnixInternal(served) => ~SetupInProgress(served)

\* A local-Unix internal request is handled while setupChan is still open.
WitC1 ==
    /\ pc = "done"
    /\ setupChan = "open"
    /\ UnixInternal(served)
    /\ Has(served.trace, "Handler")

\* The allow-list of the shutdown gate, as the claim words it.
AllowListed(o) ==
    \/ o.version = "internal"
    \/ o.c.Path \in {<<>>, <<"events">>, <<"operations">>}
    \/ (Len(o.c.Path) > 1 /\ o.c.Path[1] = "operations")
    \/ o.r.Method = "GET"

\* C2 as stated: every request processed after shutdownCtx is cancelled is
\* answered 503 unless it is allow-listed, whatever the caller's trust status.
CexC2 ==
    (pc = "done" /\ shutdownCtx = "canceled" /\ ~AllowListed(served))
        => served.status = 503

\* C2 amended: after shutdownCtx is cancelled a request that is not
\* allow-listed never reaches a handler or access handler; it is answered 503,
\* unless the pipeline rejected it before the shutdown gate (401, 403 or 500),
\* and a request that reaches the shutdown gate is answered 503 "Shutting
\* down" exactly when it is not allow-listed.
ThmC2 ==
    (pc = "done" /\ shutdownCtx = "canceled") =>
        /\ ~AllowListed(served) =>
              /\ ~Invoked(served)
              /\ \/ served.status = 503
                 \/ /\ served.status \in {401, 403, 500}
                    /\ ~Has(served.trace, "shutdownGate")
        /\ Has(served.trace, "shutdownGate") =>
              ((served.status = 503 /\ served.error = "Shutting down")
                  <=> ~AllowListed(served))

\* A trusted caller's request that is not allow-listed is answered 503
\* "Shutting down" at the gate.
WitC2 ==
    /\ pc = "done"
    /\ shutdownCtx = "canceled"
    /\ ~AllowListed(served)
    /\ served.auth.trusted
    /\ served.status = 503
    /\ served.error = "Shutting down"

\* C3 as stated: a request from the guest-API socket "@dev_incus" never gets a
\* handler or access handler of a main-API endpoint invoked.
CexC3 ==
    (pc = "done" /\ served.r.RemoteAddr = "@dev_incus") => ~Invoked(served)

\* The order of the steps of the pipeline.
StepRank(step) ==
    CASE step = "setupGate"     -> 1
      [] step = "Authenticate"  -> 2
      [] step = "internalCheck" -> 3
      [] step = "trustCheck"    -> 4
      [] step = "shutdownGate"  -> 5
      [] step = "AccessHandler" -> 6
      [] step = "UserIsAdmin"   -> 6
      [] step = "Handler"       -> 7

Restricted(o) ==
    o.auth.protocol = "tls" /\ o.auth.username \in DOMAIN clientCerts.projects

\* C5: every trusted request that passes the trust check gets a UserAccess
\* record; its admin flag is false exactly when the protocol is "tls" and the
\* cache has a projects entry for the fingerprint, and then its projects are
\* the entry's projects; cluster peers, Unix peers and unrestricted TLS clients
\* are admins.
ThmC5 ==
    (pc = "done" /\ Has(served.trace, "trustCheck")) =>
        /\ served.ctx.set <=> served.auth.trusted
        /\ served.ctx.set =>
              /\ served.ctx.username = served.auth.username
              /\ served.ctx.protocol = served.auth.protocol
              /\ served.ctx.access.Admin <=> ~Restricted(served)
              /\ Restricted(served) =>
                   served.ctx.access.Projects
                     = Range(clientCerts.projects[served.auth.username])
              /\ served.auth.protocol \in {"cluster", "unix"}
                   => served.ctx.access.Admin

\* A TLS client restricted to two projects.
WitC5 ==
    /\ pc = "done"
    /\ served.ctx.set
    /\ served.auth.protocol = "tls"
    /\ ~served.ctx.access.Admin
    /\ served.ctx.access.Projects = {"p1", "p2"}

\* The request reached the check of the internal version.
InternalAllowed(o) ==
    \/ o.auth.protocol \in {"unix", "cluster"}
    \/ (o.auth.trusted /\ o.auth.protocol = "tls" /\ o.c.Path = <<"cluster", "accept">>)

\* C7: the handler of an internal endpoint is invoked only for protocol unix
\* or cluster, or for trusted tls on cluster/accept; every other request that
\* comes to the internal check is answered 403 there, without access handler
\* or handler, even when the action allows untrusted callers.
ThmC7 ==
    (pc = "done" /\ served.version = "internal") =>
        /\ Invoked(served) => InternalAllowed(served)
        /\ (Has(served.trace, "internalCheck") /\ ~InternalAllowed(served)) =>
              /\ served.status = 403
              /\ Last(served.trace) = "internalCheck"

\* An untrusted request to an internal action that allows untrusted callers
\* is answered 403.
WitC7 ==
    /\ pc = "done"
    /\ served.version = "internal"
    /\ ~served.auth.trusted
    /\ ActionFor(served.c, served.r.Method).AllowUntrusted
    /\ ~served.r.XIncusAuthenticated
    /\ served.status = 403

\* C8 as stated: on a non-internal endpoint, for every method with a registered
\* action, an untrusted request whose action is marked allowUntrusted and that
\* carries no X-Incus-authenticated header is not rejected at the trust step.
CexC8 ==
    (/\ pc = "done"
     /\ served.version # "internal"
     /\ Has(served.trace, "trustCheck")
     /\ ~served.auth.trusted
     /\ ActionFor(served.c, served.r.Method).Handler
     /\ ActionFor(served.c, served.r.Method).AllowUntrusted
     /\ ~served.r.XIncusAuthenticated)
        => ~(served.status = 403 /\ Last(served.trace) = "trustCheck")

\* C9: an untrusted request (Authenticate returned untrusted without an OIDC
\* error) whose action is not marked allowUntrusted, or which carries a
\* non-empty X-Incus-authenticated header, is answered 403, and neither the
\* access handler nor the handler is invoked.
ThmC9 ==
    (/\ pc = "done"
     /\ Has(served.trace, "Authenticate")
     /\ ~served.auth.trusted
     /\ served.auth.err # "AuthError"
     /\ \/ ~ActionFor(served.c, served.r.Method).AllowUntrusted
        \/ served.r.XIncusAuthenticated)
        => (served.status = 403 /\ ~Invoked(served))

\* An untrusted request claims authentication on an action that allows
\* untrusted callers, and is answered 403.
WitC9 ==
    /\ pc = "done"
    /\ Has(served.trace, "trustCheck")
    /\ ~served.auth.trusted
    /\ ActionFor(served.c, served.r.Method).AllowUntrusted
    /\ ActionFor(served.c, served.r.Method).Handler
    /\ served.r.XIncusAuthenticated
    /\ served.status = 403

\* C10: when Authenticate returns an OIDC AuthError the pipeline writes the
\* OIDC challenge headers, answers 401 and stops after Authenticate: no trust
\* evaluation, no access handler, no handler, whatever the action allows; and
\* 401 is answered in no other case.
ThmC10 ==
    pc = "done" =>
        /\ served.auth.err = "AuthError" =>
              /\ served.status = 401
              /\ served.oidcHeaders
              /\ served.trace = <<"setupGate", "Authenticate">>
        /\ served.status = 401 =>
              /\ served.auth.err = "AuthError"
              /\ oidcVerifier /\ served.r.OIDCBearer

\* An invalid token on an action that allows untrusted callers.
WitC10 ==
    /\ pc = "done"
    /\ served.auth.err = "AuthError"
    /\ served.r.Method = "GET"
    /\ served.c.Get.AllowUntrusted
    /\ served.c.Get.Handler
    /\ served.status = 401

(***************************************************************************)
(* Properties of Authenticate (SpecAuth).                                  *)
(***************************************************************************)

\* The certificates of a chain that a trust set accepts.
Matching(certs, trustedCerts, ca) ==
    {i \in 1..Len(certs) : CheckTrustState(certs[i], trustedCerts, ca).trusted}

\* C6: Authenticate consults the trust sets in the order server, metrics (only
\* on /1.0/metrics), client; a certificate in the server-trust set makes the
\* result (trusted, its fingerprint, "cluster") whatever the other
\* certificates match; a "tls" result names the first certificate of the first
\* of the metrics (on /1.0/metrics) and client sets that accepts one.
ThmC6 ==
    pc = "called" =>
        LET r == authCall.r
            res == authCall.res
            certs == r.PeerCertificates
            ca == globalConfig.trustCACertificates
            onMetrics == r.URLPath = <<"1.0", "metrics">>
            srv == Matching(certs, clientCerts.server, FALSE)
            met == Matching(certs, clientCerts.metrics, ca)
            cli == Matching(certs, clientCerts.client, ca)
        IN  /\ res.consulted \in {<<>>, <<"server">>, <<"server", "metrics">>,
                                  <<"server", "client">>,
                                  <<"server", "metrics", "client">>}
            /\ Has(res.consulted, "metrics") => onMetrics
            /\ (r.TLS /\ srv # {}) =>
                  res = AuthResult(TRUE, certs[Min(srv)], "cluster", "", <<"server">>)
            /\ res.protocol = "cluster" => srv # {}
            /\ res.protocol = "tls" =>
                  /\ res.trusted /\ srv = {}
                  /\ IF onMetrics /\ met # {}
                     THEN res.username = certs[Min(met)]
                          /\ ~Has(res.consulted, "client")
                     ELSE cli # {} /\ res.username = certs[Min(cli)]

\* The first certificate is in the client-trust set only, the second in the
\* server-trust set: the caller is a cluster peer.
WitC6 ==
    /\ pc = "called"
    /\ Len(authCall.r.PeerCertificates) = 2
    /\ authCall.r.PeerCertificates[1] \in clientCerts.client \ clientCerts.server
    /\ authCall.r.PeerCertificates[2] \in clientCerts.server
    /\ authCall.res.protocol = "cluster"
    /\ authCall.res.username = authCall.r.PeerCertificates[2]

(***************************************************************************)
(* The lifecycle of the daemon: Init, init and Stop.                       *)
(***************************************************************************)

\* Largest number of storage pools the pool listing returns.
MaxPools == 2

\* The general task group started where the setup latch is closed, and the
\* latch closed where the group is started.
InitPhasesTasksFirst ==
    <<"authorizer",
      "checkAlreadyRunning",
      "osInit",
      "rlimit",
      "kernelFeatures",
      "localDB",
      "certs",
      "clientCert",
      "gateway",
      "mounts",
      "localConfig",
      "endpoints",
      "clusterDB",
      "firewall",
      "legacyDir",
      "globalConfig",
      "storage",
      "subServers",
      "networks",
      "instances",
      "clearReadyState",
      "tasks",
      "warnings",
      "clusterTasks",
      "closeSetupChan",
      "instancesStart",
      "deviceTaskBalance",
      "waitReady">>

\* The phases of init, in the order of the source.
InitPhases ==
    <<"authorizer",          \* 732-742
      "checkAlreadyRunning", \* 744-748
      "osInit",              \* 750-780
      "rlimit",              \* 782-796
      "kernelFeatures",      \* 798-955
      "localDB",             \* 957-961
      "certs",               \* 963-979
      "clientCert",          \* 981-1001
      "gateway",             \* 1003-1020
      "mounts",              \* 1022-1038
      "localConfig",         \* 1040-1051
      "endpoints",           \* 1057-1083
      "clusterDB",           \* 1088-1144
      "firewall",            \* 1146-1157
      "legacyDir",           \* 1159-1177
      "globalConfig",        \* 1184-1206
      "storage",             \* 1208-1262
      "subServers",          \* 1264-1360
      "networks",            \* 1362-1401
      "instances",           \* 1403-1446
      "clearReadyState",     \* 1448-1452
      "closeSetupChan",      \* 1454
      "warnings",            \* 1456-1468
      "clusterTasks",        \* 1470-1473
      "tasks",               \* 1481-1514
      "instancesStart",      \* 1516-1519
      "deviceTaskBalance",   \* 1521-1522
      "waitReady">>          \* 1525

\* The phases without a "return err": their failures are logged or cannot
\* happen.
NeverFailing ==
    {"kernelFeatures", "mounts", "firewall", "closeSetupChan", "warnings",
     "clusterTasks", "tasks", "instancesStart", "deviceTaskBalance", "waitReady"}

\* The position of a phase in init.
PhaseIndex(name) == CHOOSE i \in 1..Len(InitPhases) : InitPhases[i] = name

\* The fields of the daemon a phase sets when it succeeds; d.seccomp only when
\* the kernel has the seccomp listener (line 1432).
ComponentsOf(name, seccompListener) ==
    CASE name = "localDB"   -> {"db.Node"}
      [] name = "gateway"   -> {"gateway"}
      [] name = "endpoints" -> {"endpoints"}
      [] name = "clusterDB" -> {"db.Cluster"}
      [] name = "instances" -> IF seccompListener THEN {"seccomp"} ELSE {}
      [] OTHER              -> {}

Signals == {"SIGINT", "SIGTERM", "SIGPWR", "SIGQUIT"}

\* The teardown steps whose error Stop tracks, in the order Stop takes them.
TrackedSteps ==
    <<"Stop tasks", "Stop cluster tasks", "Close local database",
      "Shutdown dqlite", "Shutdown endpoints", "Stop seccomp">>

\* What unmounting one storage pool comes to.
PoolOutcomes == {"ok", "loadErr", "unmountErr"}

\* What the environment answers during one run of Stop.
StopEnvs ==
    [handoverErr : BOOLEAN,                      \* handoverMemberRole fails
     instances : {"loaded", "onDisk", "failed"}, \* LoadNodeAll, else instancesOnDisk
     running : BOOLEAN,                          \* numRunningInstances > 0
     volumesTimeout : BOOLEAN,                   \* the 60 s ceiling fires
     listing : {"ok", "notFound", "error"},      \* GetStoragePoolNames
     pools : SeqsUpTo(PoolOutcomes, MaxPools),   \* the pools listed, in order
     failing : SUBSET Range(TrackedSteps)]       \* the tracked steps that fail

\* A step of Stop, for the record of a run.
Step(op) == [op |-> op, pool |-> 0]

PoolStep(op, i) == [op |-> op, pool |-> i]

\* The roles handed over while the cluster tasks still run.
StopHandoverFirst(d, env) ==
    IF "gateway" \in d
    THEN <<Step("handoverMemberRole")>>
         \o (IF env.handoverErr THEN <<Step("gateway.Kill")>> ELSE <<>>)
         \o <<Step("stopClusterTasks")>>
    ELSE <<>>

\* Stop, lines 1577-1585: the cluster tasks are stopped and the member's
\* roles are handed over; the gateway is killed when that fails.
StopHandover(d, env) ==
    IF "gateway" \in d
    THEN <<Step("stopClusterTasks"), Step("handoverMemberRole")>>
         \o (IF env.handoverErr THEN <<Step("gateway.Kill")>> ELSE <<>>)
    ELSE <<>>

\* Stop, lines 1596-1614: the local instances are loaded from the database,
\* or else from the disk.
StopLoadInstances(d, env) ==
    IF "db.Cluster" \in d
    THEN <<Step("LoadNodeAll")>>
         \o (IF env.instances = "loaded" THEN <<>>
             ELSE <<Step("instancesOnDisk"), Step("gateway.Kill"),
                    Step("db.Cluster.Close")>>)
    ELSE <<>>

\* Stop, lines 1594, 1611-1613.
instancesLoaded(d, env) == "db.Cluster" \in d /\ env.instances # "failed"

\* The loop over the pools with a failure ending it.
RECURSIVE UnmountPoolsUntilFailure(_, _)
UnmountPoolsUntilFailure(pools, i) ==
    IF i > Len(pools) THEN <<>>
    ELSE IF pools[i] = "loadErr" THEN <<PoolStep("LoadByName", i)>>
    ELSE IF pools[i] = "unmountErr"
         THEN <<PoolStep("LoadByName", i), PoolStep("Unmount", i)>>
    ELSE <<PoolStep("LoadByName", i), PoolStep("Unmount", i)>>
         \o UnmountPoolsUntilFailure(pools, i + 1)

\* Stop, lines 1658-1670: each pool of the listing, from the i-th on, is
\* loaded and unmounted; a failure is logged and the loop continues.
RECURSIVE UnmountPools(_, _)
UnmountPools(pools, i) ==
    IF i > Len(pools) THEN <<>>
    ELSE <<PoolStep("LoadByName", i)>>
         \o (IF pools[i] = "loadErr" THEN <<>> ELSE <<PoolStep("Unmount", i)>>)
         \o UnmountPools(pools, i + 1)

\* A reload taken for a full shutdown.
FullShutdownOnReload(sig) == sig \in {"SIGPWR", "SIGTERM"}

\* Stop, line 1645: full shutdown requested.
FullShutdown(sig) == sig = "SIGPWR"

\* Stop, lines 1616-1672: the steps that depend on the signal.
StopSignal(d, sig, env) ==
    IF sig = "SIGPWR" \/ sig = "SIGTERM"
    THEN (IF "db.Cluster" \in d THEN <<Step("waitForOperations")>> ELSE <<>>)
         \o <<Step("daemonStorageVolumesUnmount"),
              Step(IF env.volumesTimeout THEN "time.After" ELSE "done")>>
         \o (IF FullShutdown(sig)
             THEN <<Step("instancesShutdown"), Step("networkShutdown"),
                    Step("GetStoragePoolNames")>>
                  \o UnmountPools(env.pools, 1)
             ELSE <<>>)
    ELSE <<>>

\* shouldUnmount not asking whether the instances were loaded.
shouldUnmountNoneRunning(d, env) == ~env.running

\* Stop, lines 1688-1689.
shouldUnmount(d, env) == instancesLoaded(d, env) /\ ~env.running

\* Stop, lines 1685-1723: the call behind each tracked error.
TrackedOp(desc) ==
    CASE desc = "Stop tasks"           -> "tasks.Stop"
      [] desc = "Stop cluster tasks"   -> "clusterTasks.Stop"
      [] desc = "Close local database" -> "db.Node.Close"
      [] desc = "Shutdown dqlite"      -> "gateway.Shutdown"
      [] desc = "Shutdown endpoints"   -> "endpoints.Down"
      [] desc = "Stop seccomp"         -> "seccomp.Stop"

\* The teardown given up at the first tracked step that fails.
StopTeardownAborting(d, env) ==
    LET all == (IF "gateway" \in d THEN <<Step("gateway.Kill")>> ELSE <<>>)
               \o <<Step("tasks.Stop"), Step("clusterTasks.Stop")>>
               \o (IF "db.Cluster" \in d THEN <<Step("db.Cluster.Close")>> ELSE <<>>)
               \o (IF "db.Node" \in d THEN <<Step("db.Node.Close")>> ELSE <<>>)
               \o (IF "gateway" \in d THEN <<Step("gateway.Shutdown")>> ELSE <<>>)
               \o (IF "endpoints" \in d THEN <<Step("endpoints.Down")>> ELSE <<>>)
               \o (IF "seccomp" \in d THEN <<Step("seccomp.Stop")>> ELSE <<>>)
        failed == {i \in DOMAIN all :
                     \E t \in env.failing : all[i].op = TrackedOp(t)}
    IN  IF failed = {} THEN all ELSE SubSeq(all, 1, Min(failed))

\* Stop, lines 1674-1724: the teardown.
StopTeardown(d, env) ==
    (IF "gateway" \in d THEN <<Step("gateway.Kill")>> ELSE <<>>)
    \o <<Step("tasks.Stop"), Step("clusterTasks.Stop")>>
    \o (IF "db.Cluster" \in d THEN <<Step("db.Cluster.Close")>> ELSE <<>>)
    \o (IF "db.Node" \in d THEN <<Step("db.Node.Close")>> ELSE <<>>)
    \o (IF "gateway" \in d THEN <<Step("gateway.Shutdown")>> ELSE <<>>)
    \o (IF "endpoints" \in d THEN <<Step("endpoints.Down")>> ELSE <<>>)
    \o (IF shouldUnmount(d, env)
        THEN <<Step("Unmount guestapi"), Step("Unmount shmounts")>> ELSE <<>>)
    \o (IF "seccomp" \in d THEN <<Step("seccomp.Stop")>> ELSE <<>>)

\* The tracked steps that can fail: a task group that runs may not stop in
\* time, a component that exists may fail to close.  stopClusterTasks has
\* replaced d.clusterTasks by an empty group when there is a gateway.
CanFail(d, tg) ==
    (IF tg.tasks = "running" THEN {"Stop tasks"} ELSE {})
    \cup (IF tg.clusterTasks = "running" /\ "gateway" \notin d
          THEN {"Stop cluster tasks"} ELSE {})
    \cup (IF "db.Node" \in d THEN {"Close local database"} ELSE {})
    \cup (IF "gateway" \in d THEN {"Shutdown dqlite"} ELSE {})
    \cup (IF "endpoints" \in d THEN {"Shutdown endpoints"} ELSE {})
    \cup (IF "seccomp" \in d THEN {"Stop seccomp"} ELSE {})

\* The answers that can make a difference to a run of Stop on daemon d with
\* task groups tg.  Once the cluster database is closed (line 1608) the pool
\* listing fails; a failed listing returns no pool.
StopEnvsFor(d, tg, sig) ==
    {e \in StopEnvs :
        /\ e.handoverErr => "gateway" \in d
        /\ e.instances # "loaded" => "db.Cluster" \in d
        /\ e.running => instancesLoaded(d, e)
        /\ e.volumesTimeout => sig \in {"SIGPWR", "SIGTERM"}
        /\ sig # "SIGPWR" => (e.listing = "ok" /\ e.pools = <<>>)
        /\ e.listing # "ok" => e.pools = <<>>
        /\ (sig = "SIGPWR" /\ e.instances # "loaded") => e.listing = "error"
        /\ e.failing \subseteq CanFail(d, tg)}

\* Stop, lines 1678-1683: the tracked errors, in the order of the steps.
trackError(env) == SelectSeq(TrackedSteps, LAMBDA t : t \in env.failing)

\* Stop, lines 1592-1604 and 1726-1740: the error Stop returns.  err is the
\* function's own variable: the failed load of the instances leaves it set.
StopResult(d, env) ==
    LET errs == trackError(env)
        n == Len(errs)
    IN  IF n > 0 THEN [first |-> errs[1], more |-> IF n > 1 THEN n ELSE 0]
        ELSE IF "db.Cluster" \in d /\ env.instances = "failed"
             THEN [first |-> "instancesOnDisk", more |-> 0]
        ELSE NoError

\* Stop: the record of one run.
StopRun(d, sig, env, calls) ==
    [calls |-> calls + 1,
     sig   |-> sig,
     env   |-> env,
     log   |-> <<Step("shutdownCancel")>> \o StopHandover(d, env)
               \o <<Step("miniod.StopAll")>> \o StopLoadInstances(d, env)
               \o StopSignal(d, sig, env) \o StopTeardown(d, env),
     errs  |-> trackError(env),
     ret   |-> StopResult(d, env)]

\* Stop, lines 1553-1556 and 1685-1686: what Stop leaves of the task groups.
StoppedTaskGroups(d, tg) ==
    LET stop(g) == IF g = "running" THEN "stopped" ELSE g
    IN  [tasks |-> stop(tg.tasks),
         clusterTasks |-> IF "gateway" \in d THEN "new" ELSE stop(tg.clusterTasks)]

\* A cancel function that undoes the cancellation when called again.
shutdownCancelToggles(ctx) == IF ctx = "live" THEN "canceled" ELSE "live"

\* Stop, line 1575: d.shutdownCancel(), the cancel function of
\* context.WithCancel; cancelling a cancelled context changes nothing.
shutdownCancel(ctx) == "canceled"

\* Largest number of calls of Stop in a run.
MaxStops == 2

\* The answers to a run of Stop on a daemon that Stop has already been run
\* on: the cluster database is closed, so that the instances are not loaded
\* from it; closing a component again returns, with an error or without.
StopAgainEnvsFor(d, tg, sig) ==
    {e \in StopEnvsFor(d, tg, sig) : "db.Cluster" \in d => e.instances # "loaded"}

\* The ready latch cancelled one phase before the setup latch closes.
PhaseEffectReadyEarly(name, clustered, st) ==
    CASE name = "clearReadyState" -> [st EXCEPT !.waitReady = "canceled"]
      [] name = "closeSetupChan"  -> [st EXCEPT !.setupChan = "closed"]
      [] name = "clusterTasks"    ->
           IF clustered THEN [st EXCEPT !.taskGroups.clusterTasks = "running"] ELSE st
      [] name = "tasks"           -> [st EXCEPT !.taskGroups.tasks = "running"]
      [] OTHER                    -> st

\* init, lines 1454-1525: what a phase does to the latches and the task
\* groups (d.clusterTasks.Start at 1550, d.tasks.Start at 1514).
PhaseEffect(name, clustered, st) ==
    CASE name = "closeSetupChan" -> [st EXCEPT !.setupChan = "closed"]
      [] name = "clusterTasks"   ->
           IF clustered THEN [st EXCEPT !.taskGroups.clusterTasks = "running"] ELSE st
      [] name = "tasks"          -> [st EXCEPT !.taskGroups.tasks = "running"]
      [] name = "waitReady"      -> [st EXCEPT !.waitReady = "canceled"]
      [] OTHER                   -> st

\* Init returning what Stop returned, when Stop failed.
InitResultOfStop(err, stopRet) == IF stopRet = NoError THEN err ELSE stopRet.first

\* Init, lines 697-701: the result of Stop is dropped, the error of init is
\* returned.
InitResult(err, stopRet) == err

\* The variables of the admission pipeline that the lifecycle leaves alone.
requestVars == <<oidcVerifier, globalConfig, clientCerts, pc, served, authCall>>

\* newDaemon (lines 168-191): both latches unset, shutdownCtx live, no
\* component but the empty certificate cache.
InitLife ==
    /\ setupChan = "open"
    /\ shutdownCtx = "live"
    /\ oidcVerifier = FALSE
    /\ globalConfig = UnsetConfig
    /\ clientCerts = TrustTableB
    /\ pc = "idle"
    /\ served = NoOutcome
    /\ authCall = NoCall
    /\ QuietLife /\ QuietHB /\ QuietMu /\ QuietLib

\* Init, lines 689-692: Init is called on a node that is clustered or not, on
\* a kernel with the seccomp listener or without.
InitStart ==
    /\ initRun.pc = "new"
    /\ \E clustered \in BOOLEAN, seccompListener \in BOOLEAN :
         initRun' = [initRun EXCEPT !.pc = "running", !.clustered = clustered,
                                    !.seccompListener = seccompListener]
    /\ UNCHANGED <<setupChan, shutdownCtx, waitReady, components, taskGroups, stopRun>>
    /\ UNCHANGED <<requestVars, hbVars, muVars, libVars>>

\* init: the next phase succeeds.
InitPhase ==
    /\ initRun.pc = "running"
    /\ initRun.phase < Len(InitPhases)
    /\ LET name == InitPhases[initRun.phase + 1]
           st == PhaseEffect(name, initRun.clustered,
                             [setupChan |-> setupChan, waitReady |-> waitReady,
                              taskGroups |-> taskGroups])
       IN  /\ initRun' = [initRun EXCEPT !.phase = @ + 1]
           /\ components' = components \cup ComponentsOf(name, initRun.seccompListener)
           /\ setupChan' = st.setupChan
           /\ waitReady' = st.waitReady
           /\ taskGroups' = st.taskGroups
    /\ UNCHANGED <<shutdownCtx, stopRun>>
    /\ UNCHANGED <<requestVars, hbVars, muVars, libVars>>

\* init: the next phase returns an error.
InitPhaseFails ==
    /\ initRun.pc = "running"
    /\ initRun.phase < Len(InitPhases)
    /\ InitPhases[initRun.phase + 1] \notin NeverFailing
    /\ initRun' = [initRun EXCEPT !.pc = "failed", !.err = InitPhases[initRun.phase + 1]]
    /\ UNCHANGED <<setupChan, shutdownCtx, waitReady, components, taskGroups, stopRun>>
    /\ UNCHANGED <<requestVars, hbVars, muVars, libVars>>

\* Init, lines 697-701: init failed; Stop is called with SIGINT and the error
\* of init is returned.
InitFailed ==
    /\ initRun.pc = "failed"
    /\ \E env \in StopEnvsFor(components, taskGroups, "SIGINT") :
         LET run == StopRun(components, "SIGINT", env, stopRun.calls)
         IN  /\ stopRun' = run
             /\ initRun' = [initRun EXCEPT !.pc = "returned",
                                           !.ret = InitResult(initRun.err, run.ret),
                                           !.stopCalls = @ + 1]
    /\ shutdownCtx' = shutdownCancel(shutdownCtx)
    /\ taskGroups' = StoppedTaskGroups(components, taskGroups)
    /\ UNCHANGED <<setupChan, waitReady, components>>
    /\ UNCHANGED <<requestVars, hbVars, muVars, libVars>>

\* Init, line 703: init went through; Init returns nil.
InitReturn ==
    /\ initRun.pc = "running"
    /\ initRun.phase = Len(InitPhases)
    /\ initRun' = [initRun EXCEPT !.pc = "returned", !.ret = ""]
    /\ UNCHANGED <<setupChan, shutdownCtx, waitReady, components, taskGroups, stopRun>>
    /\ UNCHANGED <<requestVars, hbVars, muVars, libVars>>

\* Stop, lines 1571-1741, called with a signal once Init has returned nil.
Stop ==
    /\ initRun.pc = "returned"
    /\ initRun.ret = ""
    /\ stopRun.calls = 0
    /\ \E sig \in Signals :
         \E env \in StopEnvsFor(components, taskGroups, sig) :
           stopRun' = StopRun(components, sig, env, stopRun.calls)
    /\ shutdownCtx' = shutdownCancel(shutdownCtx)
    /\ taskGroups' = StoppedTaskGroups(components, taskGroups)
    /\ UNCHANGED <<setupChan, waitReady, initRun, components>>
    /\ UNCHANGED <<requestVars, hbVars, muVars, libVars>>

\* Stop has returned and may be called again: the record of the run is put
\* away, the number of calls is kept.
StopReturned ==
    /\ initRun.pc = "returned"
    /\ initRun.ret = ""
    /\ stopRun.log # <<>>
    /\ stopRun.calls < MaxStops
    /\ stopRun' = [NoStopRun EXCEPT !.calls = stopRun.calls]
    /\ UNCHANGED <<setupChan, shutdownCtx, waitReady, initRun, components, taskGroups>>
    /\ UNCHANGED <<requestVars, hbVars, muVars, libVars>>

\* Stop called again after it has returned: the same code runs on the fields
\* the earlier call has left, none of which Stop sets to nil.
StopAgain ==
    /\ initRun.pc = "returned"
    /\ initRun.ret = ""
    /\ stopRun.calls >= 1
    /\ stopRun.log = <<>>
    /\ stopRun.calls < MaxStops
    /\ \E sig \in Signals :
         \E env \in StopAgainEnvsFor(components, taskGroups, sig) :
           stopRun' = StopRun(components, sig, env, stopRun.calls)
    /\ shutdownCtx' = shutdownCancel(shutdownCtx)
    /\ taskGroups' = StoppedTaskGroups(components, taskGroups)
    /\ UNCHANGED <<setupChan, waitReady, initRun, components>>
    /\ UNCHANGED <<requestVars, hbVars, muVars, libVars>>

NextLife ==
    \/ InitStart
    \/ InitPhase
    \/ InitPhaseFails
    \/ InitFailed
    \/ InitReturn
    \/ Stop
    \/ StopReturned
    \/ StopAgain

SpecLife == InitLife /\ [][NextLife]_vars

(***************************************************************************)
(* Properties of the lifecycle (SpecLife).                                 *)
(***************************************************************************)

\* init is past the phase of that name.
Past(name) == initRun.phase >= PhaseIndex(name)

\* Every task group init has to start is started.
AllTasksStarted ==
    /\ taskGroups.tasks = "running"
    /\ initRun.clustered => taskGroups.clusterTasks = "running"

\* The latches in every state: waitReady is cancelled only where setupChan is
\* closed, each latch is set exactly from its phase on, and a successful Init
\* has returned with both set.
LatchInv ==
    /\ waitReady = "canceled" => setupChan = "closed"
    /\ setupChan = "closed" <=> Past("closeSetupChan")
    /\ waitReady = "canceled" <=> Past("waitReady")
    /\ (initRun.pc = "returned" /\ initRun.ret = "") =>
          (setupChan = "closed" /\ waitReady = "canceled")

\* The latches in every step: a closed setupChan stays closed and a cancelled
\* waitReady stays cancelled; setupChan closes while no task group of the
\* daemon is started and waitReady is live; waitReady is cancelled while
\* setupChan is closed and every task group is started.
LatchStep ==
    /\ setupChan = "closed" => setupChan' = "closed"
    /\ waitReady = "canceled" => waitReady' = "canceled"
    /\ (setupChan = "open" /\ setupChan' = "closed") =>
          (taskGroups' = NewTaskGroups /\ waitReady' = "live")
    /\ (waitReady = "live" /\ waitReady' = "canceled") =>
          (setupChan = "closed" /\ AllTasksStarted)

\* C11: setupChan goes from open to closed at most once and is never
\* reopened; waitReady is cancelled only in states where setupChan is closed;
\* a successful Init ends with both latched; and between the two latch events
\* requests are admitted while the task groups are not all started yet (they
\* are started after setupChan closes and before waitReady is cancelled).
ThmC11 == [](LatchInv) /\ [][LatchStep]_vars

\* Between the latches: admission is open, the general task group is not
\* started.
WitC11 ==
    /\ initRun.pc = "running"
    /\ setupChan = "closed"
    /\ waitReady = "live"
    /\ taskGroups.tasks = "new"

\* C12: when init fails, Init calls Stop exactly once, with SIGINT, drops
\* what Stop returns and returns the error of init; a failure before
\* setupChan is closed leaves setupChan open and waitReady live when Init
\* returns, with shutdownCtx cancelled.  Stop is not called by an Init that
\* succeeds or is still running.
ThmC12 ==
    /\ initRun.pc \in {"new", "running", "failed"} =>
          (initRun.stopCalls = 0 /\ stopRun = NoStopRun /\ initRun.ret = "pending")
    /\ initRun.pc = "failed" => initRun.err # ""
    /\ (initRun.pc = "returned" /\ initRun.err = "") =>
          (initRun.stopCalls = 0 /\ initRun.ret = "")
    /\ (initRun.pc = "returned" /\ initRun.err # "") =>
          /\ initRun.stopCalls = 1
          /\ stopRun.calls = 1
          /\ stopRun.sig = "SIGINT"
          /\ initRun.ret = initRun.err
          /\ shutdownCtx = "canceled"
          /\ PhaseIndex(initRun.err) < PhaseIndex("closeSetupChan") =>
                (setupChan = "open" /\ waitReady = "live")

\* init failed after the local database was opened, Stop failed too, and Init
\* returned the error of init.
WitC12 ==
    /\ initRun.pc = "returned"
    /\ initRun.err = "clusterDB"
    /\ initRun.ret = "clusterDB"
    /\ stopRun.ret # NoError
    /\ setupChan = "open"

\* The steps of a run of Stop, as a set.
Ops(run) == {run.log[i].op : i \in DOMAIN run.log}

\* The first place of a step in a run of Stop.
Place(run, op) == Min({i \in DOMAIN run.log : run.log[i].op = op})

\* Steps follow each other in a run in the order given.
InOrder(run, ops) ==
    \A i, j \in DOMAIN ops :
        i < j => (/\ ops[i] \in Ops(run) /\ ops[j] \in Ops(run)
                  /\ Place(run, ops[i]) < Place(run, ops[j]))

Drain == {"waitForOperations", "daemonStorageVolumesUnmount"}

FullShutdownOps ==
    {"instancesShutdown", "networkShutdown", "GetStoragePoolNames", "LoadByName",
     "Unmount"}

\* C19: with SIGTERM Stop drains the operations and unmounts the daemon
\* storage volumes and shuts down no instance, network or pool; with SIGPWR it
\* does all of these in the order drain, daemon-storage unmount, instance
\* shutdown, network shutdown, pool unmount; with SIGINT or another signal it
\* does none of them.
ThmC19 ==
    stopRun.calls > 0 =>
        /\ stopRun.sig = "SIGTERM" =>
              (Drain \subseteq Ops(stopRun) /\ Ops(stopRun) \cap FullShutdownOps = {})
        /\ stopRun.sig = "SIGPWR" =>
              /\ InOrder(stopRun, <<"waitForOperations", "daemonStorageVolumesUnmount",
                                    "instancesShutdown", "networkShutdown",
                                    "GetStoragePoolNames">>)
              /\ \A i \in DOMAIN stopRun.log :
                    stopRun.log[i].op \in {"LoadByName", "Unmount"}
                        => i > Place(stopRun, "GetStoragePoolNames")
        /\ stopRun.sig \notin {"SIGTERM", "SIGPWR"} =>
              Ops(stopRun) \cap (Drain \cup FullShutdownOps) = {}

\* A reload: drained, daemon storage unmounted, the instances left alone.
WitC19 ==
    /\ stopRun.calls > 0
    /\ stopRun.sig = "SIGTERM"
    /\ Drain \subseteq Ops(stopRun)
    /\ "instancesShutdown" \notin Ops(stopRun)

\* C20: on SIGPWR every pool of the listing is attempted, in the order of the
\* listing: each is loaded, and each that loads is unmounted, whatever
\* happened to the pools before it.
ThmC20 ==
    (stopRun.calls > 0 /\ stopRun.sig = "SIGPWR") =>
        LET pools == stopRun.env.pools
        IN  /\ \A i \in DOMAIN pools :
                  /\ PoolStep("LoadByName", i) \in Range(stopRun.log)
                  /\ PoolStep("Unmount", i) \in Range(stopRun.log)
                        <=> pools[i] # "loadErr"
            /\ \A i, j \in DOMAIN stopRun.log :
                  (/\ i < j
                   /\ stopRun.log[i].pool > 0
                   /\ stopRun.log[j].pool > 0)
                      => stopRun.log[i].pool <= stopRun.log[j].pool

\* The first pool fails to unmount, the last pool is unmounted all the same.
WitC20 ==
    /\ stopRun.calls > 0
    /\ stopRun.sig = "SIGPWR"
    /\ Len(stopRun.env.pools) >= 2
    /\ stopRun.env.pools[1] = "unmountErr"
    /\ PoolStep("Unmount", Len(stopRun.env.pools)) \in Range(stopRun.log)

(***************************************************************************)
(* Heartbeats: heartbeatHandler.                                           *)
(***************************************************************************)

\* A member of a heartbeat (cluster.APIHeartbeatMember).
Member(address, online, raftID, raftRole, name) ==
    [Address |-> address, Online |-> online, RaftID |-> raftID,
     RaftRole |-> raftRole, Name |-> name]

\* The raft roles a member of a heartbeat can carry: the three roles of the
\* database (db.RaftVoter, db.RaftStandBy, db.RaftSpare) and none.
RaftRoles == {"voter", "stand-by", "spare", "none"}

\* Member lists, by member id.
NoMembers == <<>>

OneWithoutRaft == 1 :> Member("10.0.0.1", TRUE, 0, "none", "n1")

OneVoter == 1 :> Member("10.0.0.1", TRUE, 1, "voter", "n1")

TwoVoters ==
    (1 :> Member("10.0.0.1", TRUE, 1, "voter", "n1"))
    @@ (2 :> Member("10.0.0.2", TRUE, 2, "voter", "n2"))

\* The second member has not joined raft yet.
VoterAndNewcomer ==
    (1 :> Member("10.0.0.1", TRUE, 1, "voter", "n1"))
    @@ (2 :> Member("10.0.0.2", TRUE, 0, "none", "n2"))

\* The second member is offline: with no raft role yet, or as a spare.
VoterAndOffline(raftID, raftRole) ==
    (1 :> Member("10.0.0.1", TRUE, 1, "voter", "n1"))
    @@ (2 :> Member("10.0.0.2", FALSE, raftID, raftRole, "n2"))

OfflineMembers ==
    {VoterAndOffline(IF role = "none" THEN 0 ELSE 2, role) :
        role \in RaftRoles \ {"voter", "stand-by"}}

\* A heartbeat (cluster.APIHeartbeat).  Time is in seconds on the receiver's
\* clock, which reads 0 when the heartbeat is handled; seq tells the
\* heartbeats of a run apart, in the order they were received or sent.
Heartbeat(seq, time, version, members, full) ==
    [seq |-> seq, Time |-> time, Version |-> version, Members |-> members,
     FullStateList |-> full]

\* The heartbeats sent to the handler: on time, at the edge of the window
\* (5 s), outside it on either side.
HandlerHeartbeats ==
    {Heartbeat(0, time, "v1", members, full) :
        time \in {0, 5, 6, -6},
        members \in {NoMembers, OneWithoutRaft, OneVoter, TwoVoters},
        full \in BOOLEAN}

\* What the environment answers while a heartbeat is handled.
HeartbeatEnvs ==
    [upsertErr : BOOLEAN,    \* UpsertWarningLocalNode fails
     resolveErr : BOOLEAN,   \* ResolveWarningsByLocalNodeAndType fails
     replaceErr : BOOLEAN,   \* the transaction of ReplaceRaftNodes fails
     restarted : BOOLEAN]    \* gateway.HeartbeatRestart() returns true

\* heartbeatHandler, line 1829.
Skewed(time, now) == time + 5 < now \/ time - 5 > now

\* heartbeatHandler, lines 1857-1870: the raft nodes of a heartbeat.
RaftNodesOf(hb) ==
    {[ID |-> hb.Members[i].RaftID, Address |-> hb.Members[i].Address,
      Role |-> hb.Members[i].RaftRole, Name |-> hb.Members[i].Name] :
        i \in {j \in DOMAIN hb.Members : hb.Members[j].RaftID > 0}}

\* UpsertWarningLocalNode: the warning is there and unresolved.
UpsertWarning(w) == [status |-> "new", upserts |-> IF w.upserts < 2 THEN w.upserts + 1 ELSE 2]

\* ResolveWarningsByLocalNodeAndType.
ResolveWarnings(w) == [w EXCEPT !.status = IF @ = "new" THEN "resolved" ELSE @]

\* heartbeatHandler, lines 1826-1855: the time-skew check.  d is the state of
\* the daemon the handler works on: timeSkew, warnings, raftNodes, and
\* dbCluster (d.db.Cluster # nil).
TimeSkewStep(d, hb, env) ==
    IF Skewed(hb.Time, 0)
    THEN [d EXCEPT !.timeSkew = TRUE,
                   !.warnings = IF ~d.timeSkew /\ d.dbCluster /\ ~env.upsertErr
                                THEN UpsertWarning(@) ELSE @]
    ELSE IF d.timeSkew
         THEN [d EXCEPT !.timeSkew = FALSE,
                        !.warnings = IF d.dbCluster /\ ~env.resolveErr
                                     THEN [ResolveWarnings(@) EXCEPT !.upserts = 0]
                                     ELSE [@ EXCEPT !.upserts = 0]]
         ELSE d

\* heartbeatHandler starting the refresh task for every full-state heartbeat.
heartbeatHandlerAlwaysRefreshes(d, hb, isLeader, env) ==
    LET d1 == TimeSkewStep(d, hb, env)
        nodes == RaftNodesOf(hb)
        answer(after, status, spawned) ==
            [d |-> after, status |-> status, spawned |-> spawned]
    IN  IF Cardinality(nodes) <= 0 THEN answer(d1, 400, FALSE)
        ELSE IF env.replaceErr THEN answer(d1, 500, FALSE)
        ELSE LET d2 == [d1 EXCEPT !.raftNodes = nodes]
             IN  IF hb.FullStateList
                 THEN answer(d2, 200, TRUE)
                 ELSE IF isLeader THEN answer(d2, 400, FALSE)
                 ELSE answer(d2, 200, FALSE)

\* heartbeatHandler, lines 1821-1913: the state it leaves, the status it
\* answers (200 when it writes none) and whether it starts nodeRefreshTask.
heartbeatHandler(d, hb, isLeader, env) ==
    LET d1 == TimeSkewStep(d, hb, env)
        nodes == RaftNodesOf(hb)
        answer(after, status, spawned) ==
            [d |-> after, status |-> status, spawned |-> spawned]
    IN  IF Cardinality(nodes) <= 0 THEN answer(d1, 400, FALSE)
        ELSE IF env.replaceErr THEN answer(d1, 500, FALSE)
        ELSE LET d2 == [d1 EXCEPT !.raftNodes = nodes]
             IN  IF hb.FullStateList
                 THEN answer(d2, 200, ~isLeader \/ ~env.restarted)
                 ELSE IF isLeader THEN answer(d2, 400, FALSE)
                 ELSE answer(d2, 200, FALSE)

\* The answers that can make a difference to heartbeat hb on daemon d.
HeartbeatEnvsFor(d, hb, isLeader) ==
    {e \in HeartbeatEnvs :
        /\ e.upsertErr => (Skewed(hb.Time, 0) /\ ~d.timeSkew /\ d.dbCluster)
        /\ e.resolveErr => (~Skewed(hb.Time, 0) /\ d.timeSkew /\ d.dbCluster)
        /\ e.replaceErr => RaftNodesOf(hb) # {}
        /\ e.restarted => (/\ isLeader /\ hb.FullStateList /\ RaftNodesOf(hb) # {}
                           /\ ~e.replaceErr)}

\* The state of the daemon the heartbeat handler works on.
HeartbeatDaemon ==
    [timeSkew |-> timeSkew, warnings |-> warnings, raftNodes |-> raftNodes,
     dbCluster |-> "db.Cluster" \in components]

(***************************************************************************)
(* Heartbeats: nodeRefreshTask.                                            *)
(***************************************************************************)

\* Largest number of calls of nodeRefreshTask running at a time.
MaxTasks == 2

\* Largest number of heartbeats received or sent in a run of the refresh tasks.
MaxHeartbeats == 2

\* The full-state heartbeats a member that is not the leader receives: the
\* cluster as it was, or upgraded.
ReceivedHeartbeats(seq) ==
    {Heartbeat(seq, 0, version, TwoVoters, TRUE) : version \in {"v1", "v2"}}

\* The heartbeats the leader's heartbeat round hands to the hook at its end:
\* full ones, with or without a member that has no raft role yet or is
\* offline, and one that is not full.
SentHeartbeats(seq) ==
    {Heartbeat(seq, 0, "v1", TwoVoters, TRUE),
     Heartbeat(seq, 0, "v1", VoterAndNewcomer, TRUE),
     Heartbeat(seq, 0, "v1", TwoVoters, FALSE)}
    \cup {Heartbeat(seq, 0, "v1", members, TRUE) : members \in OfflineMembers}

\* core.cluster.max_voters and max_standby, as the configuration has them.
RoleConfigs ==
    {[maxVoters |-> 3, maxStandBy |-> 2], [maxVoters |-> 1, maxStandBy |-> 0]}

\* What the environment answers to the first part of nodeRefreshTask.
RefreshEnvs ==
    [nodeID0 : BOOLEAN,     \* d.db.Cluster.GetNodeID() == 0
     updateErr : BOOLEAN,   \* cluster.MaybeUpdate fails
     ovnErr : BOOLEAN]      \* networkUpdateOVNChassis fails

\* The task has not read max_voters and max_standby.
NoRoleConfig == [maxVoters |-> 0, maxStandBy |-> 0]

\* A call of nodeRefreshTask that has just started.  fromSend is
\* unavailableMembers # nil; cfg is what lines 2005 and 2006 have read.
NewTask(hb, isLeader, fromSend) ==
    [pc |-> "start", hb |-> hb, isLeader |-> isLeader, fromSend |-> fromSend,
     fail |-> FALSE, upgrade |-> FALSE, cfg |-> NoRoleConfig]

FreeSlots == {i \in DOMAIN refreshTasks : refreshTasks[i] = NoTask}

Running == DOMAIN refreshTasks \ FreeSlots

\* A member missing from a map: the zero value.
NoMember == Member("", FALSE, 0, "", "")

\* hasMemberStateChanged (lines 1795-1818).
hasMemberStateChanged(last, heartbeatData) ==
    IF last = NoNodeList THEN TRUE
    ELSE IF Cardinality(DOMAIN last.Members) # Cardinality(DOMAIN heartbeatData.Members)
         THEN TRUE
    ELSE \E id \in DOMAIN last.Members :
            LET m == IF id \in DOMAIN heartbeatData.Members
                     THEN heartbeatData.Members[id] ELSE NoMember
            IN  \/ m.Address # last.Members[id].Address
                \/ m.Online # last.Members[id].Online

\* nodeRefreshTask, line 1937: the version of the cluster has changed.
VersionChanged(last, heartbeatData) ==
    last = NoNodeList \/ last.Version # heartbeatData.Version

\* nodeRefreshTask, lines 1925-1934: the task returns at once.
ReturnsEarly(d, heartbeatData, env) ==
    \/ ~d.dbCluster \/ env.nodeID0
    \/ ~heartbeatData.FullStateList
    \/ Cardinality(DOMAIN heartbeatData.Members) <= 0

\* The snapshot replaced whatever the subtasks did.
StoreNodeListAlways(last, task) == task.hb

\* nodeRefreshTask, lines 1971-1975: the snapshot is replaced when no state
\* change task failed.
StoreNodeList(last, task) == IF ~task.fail THEN task.hb ELSE last

\* nodeRefreshTask, line 1980: the task looks at the roles.
ChecksRoles(task) ==
    task.isLeader /\ task.fromSend /\ Cardinality(DOMAIN task.hb.Members) > 1

\* RoleChanges looking for members without a raft role among the offline
\* members too.
RoleChangesOfflineToo(task, cfg) ==
    LET ms == task.hb.Members
        ids == DOMAIN ms
    IN  IF task.isLeader /\ task.fromSend /\ Cardinality(ids) > 1
        THEN LET isDegraded == \E i \in ids : ~ms[i].Online /\ ms[i].RaftRole # "spare"
                 onlineVoters ==
                     Cardinality({i \in ids : ms[i].Online /\ ms[i].RaftRole = "voter"})
                 onlineStandbys ==
                     Cardinality({i \in ids : ms[i].Online /\ ms[i].RaftRole = "stand-by"})
                 hasNodesNotPartOfRaft == \E i \in ids : ms[i].RaftID = 0
             IN  [rebalance |-> \/ isDegraded
                                \/ onlineVoters < cfg.maxVoters
                                \/ onlineStandbys < cfg.maxStandBy,
                  upgrade |-> hasNodesNotPartOfRaft]
        ELSE [rebalance |-> FALSE, upgrade |-> FALSE]

\* nodeRefreshTask, lines 1980-2022: whether the roles are rebalanced and
\* whether members without a raft role are upgraded.
RoleChanges(task, cfg) ==
    LET ms == task.hb.Members
        ids == DOMAIN ms
    IN  IF task.isLeader /\ task.fromSend /\ Cardinality(ids) > 1
        THEN LET isDegraded == \E i \in ids : ~ms[i].Online /\ ms[i].RaftRole # "spare"
                 onlineVoters ==
                     Cardinality({i \in ids : ms[i].Online /\ ms[i].RaftRole = "voter"})
                 onlineStandbys ==
                     Cardinality({i \in ids : ms[i].Online /\ ms[i].RaftRole = "stand-by"})
                 hasNodesNotPartOfRaft == \E i \in ids : ms[i].Online /\ ms[i].RaftID = 0
             IN  [rebalance |-> \/ isDegraded
                                \/ onlineVoters < cfg.maxVoters
                                \/ onlineStandbys < cfg.maxStandBy,
                  upgrade |-> hasNodesNotPartOfRaft]
        ELSE [rebalance |-> FALSE, upgrade |-> FALSE]

\* The lock taken for the rebalancing only.
LocksMembershipToRebalance(at) == at = "lockRebalance"

\* nodeRefreshTask, lines 2012 and 2023: d.clusterMembershipMutex.Lock()
\* before rebalanceMemberRoles and before upgradeNodesWithoutRaftRole.
LocksMembership(at) == at \in {"lockRebalance", "lockUpgrade"}

\* The variables of the lifecycle that no heartbeat changes.
daemonVars == <<setupChan, shutdownCtx, oidcVerifier, globalConfig, pc, served,
                authCall, waitReady, initRun, taskGroups, stopRun>>

\* heartbeatHandler is called with a heartbeat; count is the number of
\* heartbeats afterwards.  The refresh task it starts takes a free slot.
Receive(hb, isLeader, count) ==
    /\ hbRun = NoHeartbeat
    /\ FreeSlots # {}
    /\ \E env \in HeartbeatEnvsFor(HeartbeatDaemon, hb, isLeader) :
         LET res == heartbeatHandler(HeartbeatDaemon, hb, isLeader, env)
         IN  /\ timeSkew' = res.d.timeSkew
             /\ warnings' = res.d.warnings
             /\ raftNodes' = res.d.raftNodes
             /\ hbRun' = [hb |-> hb, isLeader |-> isLeader, env |-> env,
                          before |-> HeartbeatDaemon, status |-> res.status,
                          spawned |-> res.spawned]
             /\ refreshTasks' =
                  IF res.spawned
                  THEN [refreshTasks EXCEPT ![Min(FreeSlots)] = NewTask(hb, isLeader, FALSE)]
                  ELSE refreshTasks
    /\ hbCount' = count
    /\ UNCHANGED <<lastNodeList, clusterMembershipMutex, clientCerts, components>>
    /\ UNCHANGED <<daemonVars, muVars, libVars>>

\* A heartbeat arrives once the refresh task of the one before has ended.
HeartbeatHandler ==
    /\ Running = {}
    /\ \E hb \in HandlerHeartbeats, isLeader \in BOOLEAN : Receive(hb, isLeader, hbCount)

\* A member that is not the leader receives the next full-state heartbeat,
\* whether or not the refresh tasks of the earlier ones have ended.
HeartbeatReceived ==
    /\ hbCount < MaxHeartbeats
    /\ \E hb \in ReceivedHeartbeats(hbCount + 1) : Receive(hb, FALSE, hbCount + 1)

\* The handler has answered.
HeartbeatAnswered ==
    /\ hbRun # NoHeartbeat
    /\ hbRun' = NoHeartbeat
    /\ UNCHANGED <<timeSkew, lastNodeList, raftNodes, warnings, hbCount, refreshTasks,
                   clusterMembershipMutex, clientCerts, components>>
    /\ UNCHANGED <<daemonVars, muVars, libVars>>

\* init, line 1115: the cluster database is open.
ClusterDBOpened ==
    /\ "db.Cluster" \notin components
    /\ hbRun = NoHeartbeat
    /\ components' = components \cup {"db.Cluster"}
    /\ UNCHANGED <<hbVars, clientCerts, daemonVars, muVars, libVars>>

\* The gateway calls the hook (line 1020) at the end of a heartbeat round of
\* the leader, with the list of members that did not respond.
HeartbeatNodeHook ==
    /\ hbCount < MaxHeartbeats
    /\ FreeSlots # {}
    /\ \E hb \in SentHeartbeats(hbCount + 1) :
         refreshTasks' = [refreshTasks EXCEPT ![Min(FreeSlots)] = NewTask(hb, TRUE, TRUE)]
    /\ hbCount' = hbCount + 1
    /\ UNCHANGED <<timeSkew, lastNodeList, raftNodes, warnings, hbRun,
                   clusterMembershipMutex, clientCerts, components>>
    /\ UNCHANGED <<daemonVars, muVars, libVars>>

\* nodeRefreshTask, lines 1921-1969: the task returns early, or goes on to
\* the snapshot after the OVN chassis and the certificate cache are seen to.
\* updateCertificateCache fills the cache from the database.
RefreshBegin ==
    \E i \in Running :
        LET task == refreshTasks[i]
        IN  /\ task.pc = "start"
            /\ \E env \in RefreshEnvs :
                 IF ReturnsEarly(HeartbeatDaemon, task.hb, env)
                 THEN /\ ~(env.updateErr \/ env.ovnErr)
                      /\ refreshTasks' = [refreshTasks EXCEPT ![i] = NoTask]
                      /\ UNCHANGED clientCerts
                 ELSE IF VersionChanged(lastNodeList, task.hb) /\ env.updateErr
                 THEN /\ ~env.ovnErr
                      /\ refreshTasks' = [refreshTasks EXCEPT ![i] = NoTask]
                      /\ UNCHANGED clientCerts
                 ELSE /\ env.updateErr => VersionChanged(lastNodeList, task.hb)
                      /\ refreshTasks' =
                           [refreshTasks EXCEPT ![i].pc = "store", ![i].fail = env.ovnErr]
                      /\ clientCerts' =
                           IF hasMemberStateChanged(lastNodeList, task.hb)
                           THEN TrustTableA ELSE clientCerts
            /\ UNCHANGED <<timeSkew, lastNodeList, raftNodes, warnings, hbRun, hbCount,
                           clusterMembershipMutex, components>>
            /\ UNCHANGED <<daemonVars, muVars, libVars>>

\* nodeRefreshTask, lines 1971-2006 and 2034: the snapshot is stored or not;
\* a task that looks at the roles goes through the members and reads
\* max_voters and max_standby, another ends.
RefreshStore ==
    \E i \in Running :
        LET task == refreshTasks[i]
        IN  /\ task.pc = "store"
            /\ lastNodeList' = StoreNodeList(lastNodeList, task)
            /\ IF ChecksRoles(task)
               THEN \E cfg \in RoleConfigs :
                      refreshTasks' = [refreshTasks EXCEPT ![i].pc = "roles",
                                                           ![i].cfg = cfg]
               ELSE refreshTasks' = [refreshTasks EXCEPT ![i] = NoTask]
            /\ UNCHANGED <<timeSkew, raftNodes, warnings, hbRun, hbCount,
                           clusterMembershipMutex, clientCerts, components>>
            /\ UNCHANGED <<daemonVars, muVars, libVars>>

\* nodeRefreshTask, lines 2011, 2022 and 2034: the task decides about the
\* roles; without role changes it ends.
RefreshRoles ==
    \E i \in Running :
        LET task == refreshTasks[i]
            roles == RoleChanges(task, task.cfg)
        IN  /\ task.pc = "roles"
            /\ refreshTasks' =
                 IF roles.rebalance
                 THEN [refreshTasks EXCEPT ![i].pc = "lockRebalance",
                                           ![i].upgrade = roles.upgrade]
                 ELSE IF roles.upgrade
                 THEN [refreshTasks EXCEPT ![i].pc = "lockUpgrade"]
                 ELSE [refreshTasks EXCEPT ![i] = NoTask]
            /\ UNCHANGED <<timeSkew, lastNodeList, raftNodes, warnings, hbRun, hbCount,
                           clusterMembershipMutex, clientCerts, components>>
            /\ UNCHANGED <<daemonVars, muVars, libVars>>

\* nodeRefreshTask, lines 2012-2014 and 2023-2025: the task takes
\* clusterMembershipMutex, waiting while another holds it, and calls
\* rebalanceMemberRoles or upgradeNodesWithoutRaftRole.
RefreshLock ==
    \E i \in Running :
        LET task == refreshTasks[i]
        IN  /\ task.pc \in {"lockRebalance", "lockUpgrade"}
            /\ IF LocksMembership(task.pc)
               THEN clusterMembershipMutex = 0 /\ clusterMembershipMutex' = i
               ELSE UNCHANGED clusterMembershipMutex
            /\ refreshTasks' =
                 [refreshTasks EXCEPT ![i].pc =
                     IF task.pc = "lockRebalance" THEN "rebalance" ELSE "upgrade"]
            /\ UNCHANGED <<timeSkew, lastNodeList, raftNodes, warnings, hbRun, hbCount,
                           clientCerts, components>>
            /\ UNCHANGED <<daemonVars, muVars, libVars>>

\* nodeRefreshTask, lines 2014-2019 and 2025-2030: the call returns, with nil,
\* ErrNotLeader or another error (logged), and the task releases the mutex.
RefreshUnlock ==
    \E i \in Running :
        LET task == refreshTasks[i]
        IN  /\ task.pc \in {"rebalance", "upgrade"}
            /\ clusterMembershipMutex' = 0
            /\ refreshTasks' =
                 IF task.pc = "rebalance" /\ task.upgrade
                 THEN [refreshTasks EXCEPT ![i].pc = "lockUpgrade"]
                 ELSE [refreshTasks EXCEPT ![i] = NoTask]
            /\ UNCHANGED <<timeSkew, lastNodeList, raftNodes, warnings, hbRun, hbCount,
                           clientCerts, components>>
            /\ UNCHANGED <<daemonVars, muVars, libVars>>

\* The listeners are up (init, line 1080); the cluster database is open or
\* about to be; the raft_nodes table is as the last run left it.
InitHB ==
    /\ setupChan = "open"
    /\ shutdownCtx = "live"
    /\ oidcVerifier = FALSE
    /\ globalConfig = UnsetConfig
    /\ clientCerts = TrustTableB
    /\ pc = "idle"
    /\ served = NoOutcome
    /\ authCall = NoCall
    /\ waitReady = "live"
    /\ initRun = NoInitRun
    /\ components = {"db.Node", "gateway", "endpoints"}
    /\ taskGroups = NewTaskGroups
    /\ stopRun = NoStopRun
    /\ timeSkew = FALSE
    /\ lastNodeList = NoNodeList
    /\ raftNodes = RaftNodesOf(Heartbeat(0, 0, "v1", OneVoter, TRUE))
    /\ warnings = NoWarnings
    /\ hbRun = NoHeartbeat
    /\ hbCount = 0
    /\ refreshTasks = [i \in 1..MaxTasks |-> NoTask]
    /\ clusterMembershipMutex = 0
    /\ QuietMu
    /\ QuietLib

NextHB ==
    \/ ClusterDBOpened
    \/ HeartbeatHandler
    \/ HeartbeatAnswered
    \/ RefreshBegin
    \/ RefreshStore

SpecHB == InitHB /\ [][NextHB]_vars

\* The daemon is up: the cluster database is open.
InitRefresh ==
    /\ setupChan = "closed"
    /\ shutdownCtx = "live"
    /\ oidcVerifier = FALSE
    /\ globalConfig = UnsetConfig
    /\ clientCerts = TrustTableB
    /\ pc = "idle"
    /\ served = NoOutcome
    /\ authCall = NoCall
    /\ waitReady = "canceled"
    /\ initRun = NoInitRun
    /\ components = {"db.Node", "gateway", "endpoints", "db.Cluster"}
    /\ taskGroups = NewTaskGroups
    /\ stopRun = NoStopRun
    /\ timeSkew = FALSE
    /\ lastNodeList = NoNodeList
    /\ raftNodes = RaftNodesOf(Heartbeat(0, 0, "v1", TwoVoters, TRUE))
    /\ warnings = NoWarnings
    /\ hbRun = NoHeartbeat
    /\ hbCount = 0
    /\ refreshTasks = [i \in 1..MaxTasks |-> NoTask]
    /\ clusterMembershipMutex = 0
    /\ QuietMu
    /\ QuietLib

NextRefresh ==
    \/ HeartbeatReceived
    \/ HeartbeatAnswered
    \/ HeartbeatNodeHook
    \/ RefreshBegin
    \/ RefreshStore
    \/ RefreshRoles
    \/ RefreshLock
    \/ RefreshUnlock

SpecRefresh == InitRefresh /\ [][NextRefresh]_vars

(***************************************************************************)
(* Properties of the heartbeat handler (SpecHB).  They speak about the     *)
(* heartbeat just handled (hbRun.status # 0); hbRun.before is the state    *)
(* the handler found.                                                      *)
(***************************************************************************)

\* C13: a heartbeat without any raft node is answered 400 and changes
\* nothing: the raft-node table and the warnings are as the handler found
\* them, and no refresh task is started.
CexC13 ==
    (hbRun.status # 0 /\ RaftNodesOf(hbRun.hb) = {}) =>
        /\ hbRun.status = 400
        /\ raftNodes = hbRun.before.raftNodes
        /\ warnings = hbRun.before.warnings
        /\ ~hbRun.spawned

\* C14: after each heartbeat timeSkew tells whether its time was outside the
\* window; while timeSkew is set the warning of the episode is there,
\* unresolved, inserted once; once timeSkew is cleared it is resolved.
CexC14 ==
    hbRun.status # 0 =>
        /\ timeSkew <=> Skewed(hbRun.hb.Time, 0)
        /\ timeSkew => (warnings.status = "new" /\ warnings.upserts = 1)
        /\ ~timeSkew => warnings.status # "new"

(***************************************************************************)
(* Properties of the refresh tasks (SpecRefresh).                          *)
(***************************************************************************)

\* Task i leaves the place it is at.
Leaves(i, at) == refreshTasks[i].pc = at /\ refreshTasks'[i] # refreshTasks[i]

\* The tasks that are past the snapshot.
PastStore ==
    {i \in Running :
        refreshTasks[i].pc \in {"roles", "lockRebalance", "rebalance", "lockUpgrade",
                                "upgrade"}}

\* C15: lastNodeList changes only when a task none of whose state change
\* tasks failed stores its heartbeat; a task that returns early and a task
\* whose OVN chassis update failed leave it as it was.
C15Step ==
    /\ lastNodeList' # lastNodeList =>
          \E i \in Running :
              /\ Leaves(i, "store")
              /\ ~refreshTasks[i].fail
              /\ lastNodeList' = refreshTasks[i].hb
    /\ \A i \in Running :
          /\ (Leaves(i, "store") /\ ~refreshTasks[i].fail)
                => lastNodeList' = refreshTasks[i].hb
          /\ (Leaves(i, "store") /\ refreshTasks[i].fail)
                => lastNodeList' = lastNodeList
          /\ (Leaves(i, "start") /\ refreshTasks'[i] = NoTask)
                => lastNodeList' = lastNodeList

ThmC15 == [][C15Step]_vars

\* A task whose OVN chassis update failed is past the snapshot, and the
\* snapshot is still the one of an earlier heartbeat.
WitC15 ==
    \E i \in PastStore :
        /\ refreshTasks[i].fail
        /\ lastNodeList # NoNodeList
        /\ lastNodeList # refreshTasks[i].hb

\* C16: the refresh tasks of the heartbeats received never overlap: at most
\* one task started by heartbeatHandler is running.
CexC16 == Cardinality({i \in Running : ~refreshTasks[i].fromSend}) <= 1

\* The tasks inside rebalanceMemberRoles or upgradeNodesWithoutRaftRole.
Mutating == {i \in Running : refreshTasks[i].pc \in {"rebalance", "upgrade"}}

\* C17: a task inside rebalanceMemberRoles or upgradeNodesWithoutRaftRole
\* holds clusterMembershipMutex, so at most one is inside; the mutex is held
\* by such a task only, never by a task that has moved on or ended.
ThmC17 ==
    /\ \A i \in Mutating : clusterMembershipMutex = i
    /\ Cardinality(Mutating) <= 1
    /\ clusterMembershipMutex # 0 => clusterMembershipMutex \in Mutating

\* One task rebalances the roles while another waits for the mutex.
WitC17 ==
    \E i, j \in Running :
        /\ i # j
        /\ refreshTasks[i].pc = "rebalance"
        /\ clusterMembershipMutex = i
        /\ refreshTasks[j].pc \in {"lockRebalance", "lockUpgrade"}

(***************************************************************************)
(* The configuration records and globalConfigMu.  A thread is at a line    *)
(* of the source ("l1042" is line 1042) when that line is the next it      *)
(* runs.  The thread of init runs the lines of init that lock, unlock,     *)
(* read or write d.globalConfig or d.localConfig; a request thread, once   *)
(* the listeners are up, calls Daemon.State or, once the setup gate lets   *)
(* requests through, reaches line 347 of Authenticate.                     *)
(***************************************************************************)

RequestThreads == {"req1", "req2"}

ConfigThreads == {"init"} \cup RequestThreads

\* The lines of init about the configuration, in the order init runs them,
\* from the registration of the heartbeat hook to close(d.setupChan); at
\* line 1080 the listeners come up.
InitLines ==
    <<"l1020", "l1042", "l1049", "l1080", "l1197", "l1199", "l1200", "l1210", "l1253",
      "l1255", "l1256", "l1265", "l1271", "l1272", "l1279", "l1283", "l1370",
      "l1454", "done">>

\* Daemon.State, lines 383-386.
StateLines == <<"l383", "l384", "l385", "l386">>

\* d.globalConfigMu.Lock() and Unlock().
LockLines == {"l1197", "l1253", "l1271", "l383"}

UnlockLines == {"l1200", "l1256", "l1283", "l386"}

\* The lines that read or write one of the two records.
Access(record, write) == [record |-> record, write |-> write]

ConfigAccess ==
    ("l347" :> Access("globalConfig", FALSE))
    @@ ("l384" :> Access("globalConfig", FALSE))
    @@ ("l385" :> Access("localConfig", FALSE))
    @@ ("l1042" :> Access("localConfig", TRUE))
    @@ ("l1049" :> Access("localConfig", FALSE))
    @@ ("l1199" :> Access("globalConfig", TRUE))
    @@ ("l1255" :> Access("globalConfig", TRUE))
    @@ ("l1265" :> Access("localConfig", FALSE))
    @@ ("l1272" :> Access("globalConfig", FALSE))
    @@ ("l1279" :> Access("localConfig", FALSE))
    @@ ("l1370" :> Access("localConfig", FALSE))

\* The place of a line in a sequence of lines (0: not there).
LineIndex(lines, at) ==
    IF \E i \in DOMAIN lines : lines[i] = at
    THEN CHOOSE i \in DOMAIN lines : lines[i] = at ELSE 0

\* The thread after it has run the line it is at.
After(th) ==
    LET i == LineIndex(InitLines, th.pc)
        j == LineIndex(StateLines, th.pc)
    IN  IF j > 0
        THEN IF j < Len(StateLines) THEN [th EXCEPT !.pc = StateLines[j + 1]]
             ELSE [pc |-> th.ret, ret |-> ""]
        ELSE IF i > 0 THEN [th EXCEPT !.pc = InitLines[i + 1]]
        ELSE [pc |-> th.ret, ret |-> ""]

\* The variables no step of the threads changes.
configFrame == <<shutdownCtx, oidcVerifier, clientCerts, pc, served, authCall>>

\* d.globalConfigMu.Lock(): the thread waits while another holds the mutex.
ConfigLock ==
    \E t \in ConfigThreads :
        /\ threads[t].pc \in LockLines
        /\ globalConfigMu = ""
        /\ globalConfigMu' = t
        /\ threads' = [threads EXCEPT ![t] = After(@)]
        /\ UNCHANGED <<setupChan, globalConfig, configFrame, lifeVars, hbVars, libVars>>

\* d.globalConfigMu.Unlock().
ConfigUnlock ==
    \E t \in ConfigThreads :
        /\ threads[t].pc \in UnlockLines
        /\ globalConfigMu' = ""
        /\ threads' = [threads EXCEPT ![t] = After(@)]
        /\ UNCHANGED <<setupChan, globalConfig, configFrame, lifeVars, hbVars, libVars>>

\* A read of d.globalConfig or d.localConfig.
ConfigRead ==
    \E t \in ConfigThreads :
        /\ threads[t].pc \in DOMAIN ConfigAccess
        /\ ~ConfigAccess[threads[t].pc].write
        /\ threads' = [threads EXCEPT ![t] = After(@)]
        /\ UNCHANGED <<setupChan, globalConfig, globalConfigMu, configFrame,
                       lifeVars, hbVars, libVars>>

\* init, lines 1042, 1199 and 1255: the record is loaded from the database.
ConfigWrite ==
    \E t \in ConfigThreads :
        /\ threads[t].pc \in DOMAIN ConfigAccess
        /\ ConfigAccess[threads[t].pc].write
        /\ IF ConfigAccess[threads[t].pc].record = "globalConfig"
           THEN \E ca \in BOOLEAN :
                   globalConfig' = [loaded |-> TRUE, trustCACertificates |-> ca]
           ELSE UNCHANGED globalConfig
        /\ threads' = [threads EXCEPT ![t] = After(@)]
        /\ UNCHANGED <<setupChan, globalConfigMu, configFrame, lifeVars, hbVars, libVars>>

\* The listeners are up: init is past line 1080.
Listening == threads["init"].pc \notin {"l1020", "l1042", "l1049", "l1080"}

\* init goes on from a line that does not touch the configuration: the hook
\* registered (line 1020), the listeners up (line 1080), setupChan closed
\* (line 1454).
InitLine ==
    /\ threads["init"].pc \in {"l1020", "l1080", "l1454"}
    /\ setupChan' = IF threads["init"].pc = "l1454" THEN "closed" ELSE setupChan
    /\ threads' = [threads EXCEPT !["init"] = After(@)]
    /\ UNCHANGED <<globalConfig, globalConfigMu, configFrame, lifeVars, hbVars, libVars>>

\* A call of d.State(): by init (line 1210) or by a request thread.
StateCall ==
    \E t \in ConfigThreads :
        /\ threads[t].pc = IF t = "init" THEN "l1210" ELSE "idle"
        /\ Listening
        /\ threads' = [threads EXCEPT ![t] =
                          [pc |-> "l383",
                           ret |-> IF t = "init" THEN After(threads[t]).pc ELSE "idle"]]
        /\ UNCHANGED <<setupChan, globalConfig, globalConfigMu, configFrame,
                       lifeVars, hbVars, libVars>>

\* A request that the setup gate (lines 435-445) lets through, over TLS,
\* reaches line 347 of Authenticate.
AuthenticateCall ==
    \E t \in RequestThreads :
        /\ threads[t].pc = "idle"
        /\ setupChan = "closed"
        /\ threads' = [threads EXCEPT ![t] = [pc |-> "l347", ret |-> "idle"]]
        /\ UNCHANGED <<setupChan, globalConfig, globalConfigMu, configFrame,
                       lifeVars, hbVars, libVars>>

\* init has registered the heartbeat hook and is about to load the local
\* configuration; no request is being served.
InitConfig ==
    /\ setupChan = "open"
    /\ shutdownCtx = "live"
    /\ oidcVerifier = FALSE
    /\ globalConfig = UnsetConfig
    /\ clientCerts = TrustTableB
    /\ pc = "idle"
    /\ served = NoOutcome
    /\ authCall = NoCall
    /\ QuietLife
    /\ QuietHB
    /\ QuietLib
    /\ globalConfigMu = ""
    /\ threads = [t \in ConfigThreads |->
                    IF t = "init" THEN [pc |-> "l1020", ret |-> ""]
                    ELSE [pc |-> "idle", ret |-> ""]]

NextConfig ==
    \/ ConfigLock
    \/ ConfigUnlock
    \/ ConfigRead
    \/ ConfigWrite
    \/ InitLine
    \/ StateCall
    \/ AuthenticateCall

SpecConfig == InitConfig /\ [][NextConfig]_vars

\* C18: a thread that is at a read or a write of globalConfig or localConfig
\* holds globalConfigMu.
CexC18 ==
    \A t \in DOMAIN threads :
        threads[t].pc \in DOMAIN ConfigAccess => globalConfigMu = t

(***************************************************************************)
(* More properties of the lifecycle (SpecLife).                            *)
(***************************************************************************)

\* The step is taken in the teardown of the run, after the task groups are
\* stopped.
InTeardown(run, op) ==
    \E i \in DOMAIN run.log :
        /\ run.log[i].op = op
        /\ "clusterTasks.Stop" \in Ops(run)
        /\ i > Place(run, "clusterTasks.Stop")

\* C21: whatever fails in a run of Stop, the steps after it are taken: the
\* instances are loaded after a failed handover, both task groups are
\* stopped, every component that exists is closed in the teardown, in the
\* order of the source; every tracked failure is collected, and what Stop
\* returns begins with the first of them.
ThmC21 ==
    stopRun.log # <<>> =>
        /\ "miniod.StopAll" \in Ops(stopRun)
        /\ "db.Cluster" \in components => "LoadNodeAll" \in Ops(stopRun)
        /\ InOrder(stopRun, <<"shutdownCancel", "tasks.Stop", "clusterTasks.Stop">>)
        /\ "db.Cluster" \in components => InTeardown(stopRun, "db.Cluster.Close")
        /\ "db.Node" \in components => InTeardown(stopRun, "db.Node.Close")
        /\ "gateway" \in components => InTeardown(stopRun, "gateway.Shutdown")
        /\ "endpoints" \in components => InTeardown(stopRun, "endpoints.Down")
        /\ "seccomp" \in components => InTeardown(stopRun, "seccomp.Stop")
        /\ \A i, j \in DOMAIN TrackedSteps :
              (/\ i < j
               /\ TrackedOp(TrackedSteps[i]) \in Ops(stopRun)
               /\ TrackedOp(TrackedSteps[j]) \in Ops(stopRun))
                  => Place(stopRun, TrackedOp(TrackedSteps[i]))
                        < Place(stopRun, TrackedOp(TrackedSteps[j]))
        /\ Range(stopRun.errs) = stopRun.env.failing
        /\ Len(stopRun.errs) = Cardinality(stopRun.env.failing)
        /\ \A t \in stopRun.env.failing : TrackedOp(t) \in Ops(stopRun)
        /\ stopRun.env.failing # {} =>
              (stopRun.ret # NoError /\ stopRun.ret.first = stopRun.errs[1])

\* The handover, the load of the instances and two tracked steps fail, and
\* the seccomp server is stopped all the same.
WitC21 ==
    /\ stopRun.log # <<>>
    /\ stopRun.env.handoverErr
    /\ stopRun.env.instances = "failed"
    /\ {"Stop tasks", "Shutdown dqlite"} \subseteq stopRun.env.failing
    /\ InTeardown(stopRun, "seccomp.Stop")

\* A call of Stop on a daemon that Stop has been run on.
SecondStop == stopRun.calls >= 1 /\ stopRun'.calls = stopRun.calls + 1

\* The daemon is stopped: the context is cancelled, no task group runs.
Stopped ==
    /\ shutdownCtx = "canceled"
    /\ taskGroups.tasks # "running"
    /\ taskGroups.clusterTasks # "running"

MountThreads == {"t1", "t2"}

\* Largest number of calls of setupSharedMounts in a run.
MaxMountCalls == 3

\* No call of the thread so far.
NoMountCall == [pc |-> "idle", ops |-> 0, ret |-> "", late |-> FALSE]

\* setupSharedMounts, lines 656 and 667: the flag as a thread reads it
\* without holding the lock.  A flag that another thread has set may still be
\* seen unset: nothing orders the read after the write.
FlagSeen(flag, t) ==
    IF flag.set /\ flag.by # t THEN BOOLEAN ELSE {flag.set}

\* The check of the mount point left out.
AlreadyMountedNever(m) == FALSE

\* setupSharedMounts, line 666: linux.IsMountPoint(path).
AlreadyMounted(m) == m.mounted

\* The call of thread t after it has returned ret; the deferred Unlock of
\* line 662 has run when the call held the lock.
Returned(call, ret) == [call EXCEPT !.pc = "done", !.ret = ret]

\* The variables setupSharedMounts leaves alone.
mountFrame ==
    <<setupChan, shutdownCtx, oidcVerifier, globalConfig, clientCerts, pc, served,
      authCall, lifeVars, hbVars, muVars, nameRun, volumesRun, openRun>>

\* setupSharedMounts is called; late tells whether a call has returned nil
\* before.
MountCall ==
    \E t \in MountThreads :
        /\ mountCalls.of[t].pc \in {"idle", "done"}
        /\ mountCalls.count < MaxMountCalls
        /\ mountCalls' =
             [mountCalls EXCEPT !.count = @ + 1,
                                !.of[t] = [pc |-> "l656", ops |-> 0, ret |-> "",
                                           late |-> mountCalls.succeeded]]
        /\ UNCHANGED <<SharedMountsSetup, sharedMountsLock, shmounts, mountFrame>>

\* Lines 656-658: the flag is set, the call returns nil.
MountCheckFlag ==
    \E t \in MountThreads :
        /\ mountCalls.of[t].pc = "l656"
        /\ \E seen \in FlagSeen(SharedMountsSetup, t) :
             mountCalls' =
               IF seen
               THEN [mountCalls EXCEPT !.of[t] = Returned(@, "nil"),
                                       !.succeeded = TRUE]
               ELSE [mountCalls EXCEPT !.of[t].pc = "l661"]
        /\ UNCHANGED <<SharedMountsSetup, sharedMountsLock, shmounts, mountFrame>>

\* Line 661: sharedMountsLock.Lock().
MountLock ==
    \E t \in MountThreads :
        /\ mountCalls.of[t].pc = "l661"
        /\ sharedMountsLock = ""
        /\ sharedMountsLock' = t
        /\ mountCalls' = [mountCalls EXCEPT !.of[t].pc = "l666"]
        /\ UNCHANGED <<SharedMountsSetup, shmounts, mountFrame>>

\* Lines 665-669: the path is a mount point already; the flag is set and the
\* call returns nil.
MountCheckPoint ==
    \E t \in MountThreads :
        /\ mountCalls.of[t].pc = "l666"
        /\ IF AlreadyMounted(shmounts)
           THEN /\ SharedMountsSetup' = [set |-> TRUE, by |-> t]
                /\ sharedMountsLock' = ""
                /\ mountCalls' = [mountCalls EXCEPT !.of[t] = Returned(@, "nil"),
                                                    !.succeeded = TRUE]
           ELSE /\ mountCalls' = [mountCalls EXCEPT !.of[t].pc = "l672"]
                /\ UNCHANGED <<SharedMountsSetup, sharedMountsLock>>
        /\ UNCHANGED <<shmounts, mountFrame>>

\* Lines 672-675: the tmpfs is mounted, or the mount fails and the call
\* returns the error.
MountTmpfs ==
    \E t \in MountThreads, ok \in BOOLEAN :
        /\ mountCalls.of[t].pc = "l672"
        /\ IF ok
           THEN /\ shmounts' = [shmounts EXCEPT !.mounted = TRUE, !.tmpfs = @ + 1]
                /\ mountCalls' = [mountCalls EXCEPT !.of[t].pc = "l679",
                                                    !.of[t].ops = @ + 1]
                /\ UNCHANGED sharedMountsLock
           ELSE /\ mountCalls' =
                     [mountCalls EXCEPT !.of[t] = Returned([@ EXCEPT !.ops = @ + 1], "err")]
                /\ sharedMountsLock' = ""
                /\ UNCHANGED shmounts
        /\ UNCHANGED <<SharedMountsSetup, mountFrame>>

\* Lines 678-685: the mount is marked shared, the flag is set and the call
\* returns nil; or the second mount fails and the call returns the error,
\* the tmpfs staying mounted.
MountShared ==
    \E t \in MountThreads, ok \in BOOLEAN :
        /\ mountCalls.of[t].pc = "l679"
        /\ IF ok
           THEN /\ shmounts' = [shmounts EXCEPT !.shared = TRUE]
                /\ SharedMountsSetup' = [set |-> TRUE, by |-> t]
                /\ mountCalls' =
                     [mountCalls EXCEPT !.of[t] = Returned([@ EXCEPT !.ops = @ + 1], "nil"),
                                        !.succeeded = TRUE]
           ELSE /\ mountCalls' =
                     [mountCalls EXCEPT !.of[t] = Returned([@ EXCEPT !.ops = @ + 1], "err")]
                /\ UNCHANGED <<shmounts, SharedMountsSetup>>
        /\ sharedMountsLock' = ""
        /\ UNCHANGED mountFrame

\* The process has started: the flag is unset, nothing is mounted at the
\* path, or a tmpfs that an earlier process has left.
InitMounts ==
    /\ setupChan = "open"
    /\ shutdownCtx = "live"
    /\ oidcVerifier = FALSE
    /\ globalConfig = UnsetConfig
    /\ clientCerts = TrustTableB
    /\ pc = "idle"
    /\ served = NoOutcome
    /\ authCall = NoCall
    /\ QuietLife /\ QuietHB /\ QuietMu
    /\ SharedMountsSetup = FlagUnset
    /\ sharedMountsLock = ""
    /\ shmounts \in {NoMount, [mounted |-> TRUE, shared |-> TRUE, tmpfs |-> 0]}
    /\ mountCalls = [count |-> 0, succeeded |-> FALSE,
                     of |-> [t \in MountThreads |-> NoMountCall]]
    /\ nameRun = NoNameRun
    /\ volumesRun = NoVolumesRun
    /\ openRun = NoOpenRun

NextMounts ==
    \/ MountCall
    \/ MountCheckFlag
    \/ MountLock
    \/ MountCheckPoint
    \/ MountTmpfs
    \/ MountShared

SpecMounts == InitMounts /\ [][NextMounts]_vars

\* C23: the tmpfs is mounted successfully at most once in the process, and
\* a call made after a call has returned nil issues no mount operation
\* and returns nil.
ThmC23 ==
    /\ shmounts.tmpfs <= 1
    /\ \A t \in MountThreads :
          mountCalls.of[t].late =>
              /\ mountCalls.of[t].ops = 0
              /\ mountCalls.of[t].pc \notin {"l672", "l679"}
              /\ mountCalls.of[t].pc = "done" => mountCalls.of[t].ret = "nil"

\* A call failed at the second mount, a later one found the mount point and
\* returned nil, and a call made after that has returned nil as well.
WitC23 ==
    /\ shmounts.tmpfs = 1
    /\ ~shmounts.shared
    /\ \E t \in MountThreads :
          /\ mountCalls.of[t].late
          /\ mountCalls.of[t].pc = "done"
          /\ mountCalls.of[t].ret = "nil"

(***************************************************************************)
(* Package project: the names of instances and storage volumes.  A string  *)
(* is the sequence of its characters.                                      *)
(***************************************************************************)

\* Longest project, instance or volume name tried (but for "default").
MaxNameLen == 3

\* project.go, line 15.
Default == <<"d", "e", "f", "a", "u", "l", "t">>

\* project.go, line 18.
separator == "_"

\* The characters of the names tried.
NameChars == {"a", separator}

\* The names tried: project names and volume names may contain the
\* separator, instance names may not.
Names == (SeqsUpTo(NameChars, MaxNameLen) \ {<<>>}) \cup {Default}

InstanceNames == {n \in Names : separator \notin Range(n)}

\* The largest element of a set of numbers.
Largest(S) == CHOOSE x \in S : \A y \in S : y <= x

\* strings.LastIndex and strings.Index for a separator of one character: the
\* index from 0, -1 when it does not occur.
LastIndex(str, sep) ==
    LET at == {i \in DOMAIN str : str[i] = sep}
    IN  IF at = {} THEN -1 ELSE Largest(at) - 1

Index(str, sep) ==
    LET at == {i \in DOMAIN str : str[i] = sep}
    IN  IF at = {} THEN -1 ELSE Min(at) - 1

\* The Go slices str[0:i] and str[i:].
Prefix(str, i) == SubSeq(str, 1, i)

Suffix(str, i) == SubSeq(str, i + 1, Len(str))

\* strings.SplitN(str, sep, 2).
SplitN2(str, sep) ==
    LET i == Index(str, sep)
    IN  IF i < 0 THEN <<str>> ELSE <<Prefix(str, i), Suffix(str, i + 1)>>

\* project.Instance (lines 21-27).
Instance(projectName, instanceName) ==
    IF projectName # Default
    THEN projectName \o <<separator>> \o instanceName
    ELSE instanceName

\* The name split at the first separator.
InstancePartsFromLeft(projectInstanceName) ==
    LET i == Index(projectInstanceName, separator)
    IN  IF i < 0 THEN <<Default, projectInstanceName>>
        ELSE <<Prefix(projectInstanceName, i), Suffix(projectInstanceName, i + 1)>>

\* project.InstanceParts (lines 43-53).
InstanceParts(projectInstanceName) ==
    LET i == LastIndex(projectInstanceName, separator)
    IN  IF i < 0 THEN <<Default, projectInstanceName>>
        ELSE <<Prefix(projectInstanceName, i), Suffix(projectInstanceName, i + 1)>>

\* project.StorageVolume (lines 56-58).
StorageVolume(projectName, storageVolumeName) ==
    projectName \o <<separator>> \o storageVolumeName

\* project.StorageVolumeParts (lines 62-65); parts[1] of a slice of one
\* element panics.
StorageVolumeParts(projectStorageVolumeName) ==
    LET parts == SplitN2(projectStorageVolumeName, separator)
    IN  IF Len(parts) < 2 THEN <<"panic">> ELSE <<parts[1], parts[2]>>

\* The variables the functions of the package leave alone.
nameFrame ==
    <<setupChan, shutdownCtx, oidcVerifier, globalConfig, clientCerts, pc, served,
      authCall, lifeVars, hbVars, muVars, SharedMountsSetup, sharedMountsLock,
      shmounts, mountCalls, volumesRun, openRun>>

\* A project and the name of one of its instances or volumes.
NewNameRun(kind, project, name) ==
    [pc |-> "new", kind |-> kind, project |-> project, name |-> name,
     joined |-> <<>>, parts |-> <<>>]

\* Instance is applied to the project and the name of the instance.
CallInstance ==
    /\ nameRun.pc = "new"
    /\ nameRun.kind = "instance"
    /\ nameRun' = [nameRun EXCEPT !.pc = "joined",
                                  !.joined = Instance(nameRun.project, nameRun.name)]
    /\ UNCHANGED nameFrame

\* InstanceParts is applied to the name Instance has returned.
CallInstanceParts ==
    /\ nameRun.pc = "joined"
    /\ nameRun.kind = "instance"
    /\ nameRun' = [nameRun EXCEPT !.pc = "split",
                                  !.parts = InstanceParts(nameRun.joined)]
    /\ UNCHANGED nameFrame

\* StorageVolume is applied to the project and the name of the volume.
CallStorageVolume ==
    /\ nameRun.pc = "new"
    /\ nameRun.kind = "volume"
    /\ nameRun' = [nameRun EXCEPT !.pc = "joined",
                                  !.joined = StorageVolume(nameRun.project, nameRun.name)]
    /\ UNCHANGED nameFrame

\* StorageVolumeParts is applied to the name StorageVolume has returned.
CallStorageVolumeParts ==
    /\ nameRun.pc = "joined"
    /\ nameRun.kind = "volume"
    /\ nameRun' = [nameRun EXCEPT !.pc = "split",
                                  !.parts = StorageVolumeParts(nameRun.joined)]
    /\ UNCHANGED nameFrame

InitNames ==
    /\ setupChan = "open"
    /\ shutdownCtx = "live"
    /\ oidcVerifier = FALSE
    /\ globalConfig = UnsetConfig
    /\ clientCerts = TrustTableB
    /\ pc = "idle"
    /\ served = NoOutcome
    /\ authCall = NoCall
    /\ QuietLife /\ QuietHB /\ QuietMu
    /\ SharedMountsSetup = FlagUnset
    /\ sharedMountsLock = ""
    /\ shmounts = NoMount
    /\ mountCalls = <<>>
    /\ nameRun \in {NewNameRun("instance", p, i) : p \in Names, i \in InstanceNames}
                    \cup {NewNameRun("volume", p, v) : p \in Names, v \in Names}
    /\ volumesRun = NoVolumesRun
    /\ openRun = NoOpenRun

NextNames ==
    \/ CallInstance
    \/ CallInstanceParts
    \/ CallStorageVolume
    \/ CallStorageVolumeParts

SpecNames == InitNames /\ [][NextNames]_vars

\* C24: InstanceParts gives back the project and the instance name that
\* Instance was applied to, for every project name, "default" and names with
\* the separator included, and every instance name without the separator.
ThmC24 ==
    (nameRun.pc = "split" /\ nameRun.kind = "instance") =>
        nameRun.parts = <<nameRun.project, nameRun.name>>

\* The name of a project with the separator in it has been taken apart.
WitC24 ==
    /\ nameRun.pc = "split"
    /\ nameRun.kind = "instance"
    /\ separator \in Range(nameRun.project)
    /\ nameRun.parts = <<nameRun.project, nameRun.name>>

\* C25: StorageVolumeParts gives back the project and the volume name that
\* StorageVolume was applied to, and does not fail.
CexC25 ==
    (nameRun.pc = "split" /\ nameRun.kind = "volume") =>
        nameRun.parts = <<nameRun.project, nameRun.name>>

(***************************************************************************)
(* More properties of the route handler (Spec): the dispatch of a request  *)
(* that got past the trust step and the shutdown gate.                     *)
(***************************************************************************)

\* The handler got as far as the switch on the method.
Dispatched ==
    /\ pc = "done"
    /\ Has(served.trace, "trustCheck")
    /\ Has(served.trace, "shutdownGate")
    /\ ~(served.status = 503 /\ served.error = "Shutting down")

\* The requester of the served request is an administrator.
RequesterIsAdmin == served.ctx.set /\ served.ctx.access.Admin

\* C26: a request past the trust step and the shutdown gate whose method is
\* none of GET, HEAD, PUT, POST, DELETE, PATCH is answered 404 "Method not
\* found"; if the method is one of these and the endpoint's action for it has
\* no handler the answer is 501, given before the access handler or the admin
\* check is evaluated, whoever the requester is.
ThmC26 ==
    Dispatched =>
        LET action == ActionFor(served.c, served.r.Method)
        IN  /\ served.r.Method \notin Methods =>
                  /\ served.status = 404
                  /\ served.error = "Method not found"
            /\ (served.r.Method \in Methods /\ ~action.Handler) =>
                  /\ served.status = 501
                  /\ ~Has(served.trace, "AccessHandler")
                  /\ ~Has(served.trace, "UserIsAdmin")
                  /\ served.accessResp = "none"

\* A restricted client asks for an action that has an access handler but no
\* handler, on an endpoint that wants administrators, and gets 501.
WitC26 ==
    /\ Dispatched
    /\ ~RequesterIsAdmin
    /\ served.r.Method = "PUT"
    /\ served.c.Put.AccessHandler
    /\ ~served.c.Put.Handler
    /\ ~served.c.Put.AllowUntrusted
    /\ served.status = 501

\* C27: the handler of an action is invoked only if its access handler is set
\* and answered EmptySyncResponse, or no access handler is set and the action
\* allows untrusted callers or the requester is an administrator; another
\* answer of the access handler is the response and the handler is not called;
\* a requester who is no administrator gets 403 from an action with neither
\* an access handler nor allowUntrusted.
ThmC27 ==
    Dispatched =>
        LET action == ActionFor(served.c, served.r.Method)
            called == Has(served.trace, "Handler")
        IN  /\ called =>
                  \/ action.AccessHandler /\ served.accessResp = "EmptySyncResponse"
                  \/ /\ ~action.AccessHandler
                     /\ served.accessResp = "none"
                     /\ action.AllowUntrusted \/ RequesterIsAdmin
            /\ served.accessResp = "response" =>
                  /\ ~called
                  /\ served.status = 403 /\ served.error = "AccessHandler"
            /\ (/\ served.r.Method \in Methods
                /\ action.Handler /\ ~action.AccessHandler /\ ~action.AllowUntrusted
                /\ ~RequesterIsAdmin) =>
                  served.status = 403 /\ ~called

\* A restricted client asks for an action with a handler, no access handler
\* and no allowUntrusted, and gets 403.
WitC27 ==
    /\ Dispatched
    /\ served.ctx.set /\ ~served.ctx.access.Admin
    /\ served.r.Method = "POST"
    /\ served.c.Post.Handler
    /\ ~served.c.Post.AccessHandler
    /\ ~served.c.Post.AllowUntrusted
    /\ served.status = 403
    /\ ~Has(served.trace, "Handler")

(***************************************************************************)
(* More properties of the heartbeats (SpecHB, SpecRefresh).                *)
(***************************************************************************)

\* The handler's transaction of ReplaceRaftNodes ran and succeeded.
Persisted ==
    /\ hbRun # NoHeartbeat
    /\ RaftNodesOf(hbRun.hb) # {}
    /\ ~hbRun.env.replaceErr

\* The refresh tasks the handler has started that have not begun yet.
Spawned ==
    {i \in Running : /\ refreshTasks[i].pc = "start"
                     /\ ~refreshTasks[i].fromSend
                     /\ refreshTasks[i].hb = hbRun.hb
                     /\ refreshTasks[i].isLeader = hbRun.isLeader}

\* C28: heartbeatHandler starts nodeRefreshTask exactly when the raft nodes
\* were persisted, the heartbeat is full-state, and the receiver is not the
\* leader or HeartbeatRestart returned false; when HeartbeatRestart returns
\* true the handler starts none; a failed update of the raft nodes is answered
\* 500 and starts none; a heartbeat that is not full-state starts none, and on
\* a leader it is answered 400.
ThmC28 ==
    hbRun # NoHeartbeat =>
        /\ hbRun.spawned <=>
              /\ Persisted
              /\ hbRun.hb.FullStateList
              /\ ~hbRun.isLeader \/ ~hbRun.env.restarted
        /\ hbRun.env.restarted => ~hbRun.spawned
        /\ hbRun.env.replaceErr => (hbRun.status = 500 /\ ~hbRun.spawned)
        /\ ~hbRun.hb.FullStateList => ~hbRun.spawned
        /\ (~hbRun.hb.FullStateList /\ hbRun.isLeader /\ Persisted) => hbRun.status = 400
        /\ ~hbRun.spawned => Running = {}
        /\ Spawned # {} => hbRun.spawned

\* The leader is in a heartbeat round when a full-state heartbeat arrives:
\* the round is restarted and the handler starts no refresh task.
WitC28 ==
    /\ hbRun # NoHeartbeat
    /\ hbRun.isLeader
    /\ hbRun.hb.FullStateList
    /\ hbRun.env.restarted
    /\ raftNodes = RaftNodesOf(hbRun.hb)
    /\ hbRun.status = 200
    /\ Running = {}

\* Task i decides about the roles in this step: it ends at line 1980, or it
\* passes lines 2011 and 2022.
Decides(i) ==
    \/ Leaves(i, "store") /\ refreshTasks'[i] = NoTask
    \/ Leaves(i, "roles")

\* The step sends task i into rebalanceMemberRoles.
Rebalances(i) == refreshTasks'[i] # NoTask /\ refreshTasks'[i].pc = "lockRebalance"

\* The step sends task i into upgradeNodesWithoutRaftRole, at once or after
\* the rebalancing.
Upgrades(i) ==
    /\ refreshTasks'[i] # NoTask
    /\ \/ refreshTasks'[i].pc = "lockUpgrade"
       \/ refreshTasks'[i].pc = "lockRebalance" /\ refreshTasks'[i].upgrade

\* The members of a heartbeat that are online with a raft role.
OnlineWith(hb, role) ==
    {m \in DOMAIN hb.Members : hb.Members[m].Online /\ hb.Members[m].RaftRole = role}

\* Some offline member of the heartbeat is a voter or a stand-by.
OfflineVoterOrStandBy(hb) ==
    \E m \in DOMAIN hb.Members :
        ~hb.Members[m].Online /\ hb.Members[m].RaftRole \in {"voter", "stand-by"}

\* C29: nodeRefreshTask invokes rebalanceMemberRoles if and only if it runs on
\* the leader, from the send side, with more than one member, and some offline
\* member is a voter or a stand-by (an offline member that is a spare or has
\* no raft role is no degradation), or fewer voters than MaxVoters are online,
\* or fewer stand-bys than MaxStandBy.
C29Step ==
    \A i \in Running :
        Decides(i) =>
            LET task == refreshTasks[i]
            IN  Rebalances(i) <=>
                  /\ task.isLeader /\ task.fromSend
                  /\ Cardinality(DOMAIN task.hb.Members) > 1
                  /\ \/ OfflineVoterOrStandBy(task.hb)
                     \/ Cardinality(OnlineWith(task.hb, "voter")) < task.cfg.maxVoters
                     \/ Cardinality(OnlineWith(task.hb, "stand-by")) < task.cfg.maxStandBy

CexC29 == [][C29Step]_vars

\* C30 as stated: on the leader, from the send side, with more than one
\* member, upgradeNodesWithoutRaftRole is invoked if and only if some member
\* of the heartbeat, online or offline, has raftID 0.
C30StepAnyMember ==
    \A i \in Running :
        Leaves(i, "roles") =>
            (Upgrades(i) <=>
                \E m \in DOMAIN refreshTasks[i].hb.Members :
                    refreshTasks[i].hb.Members[m].RaftID = 0)

CexC30 == [][C30StepAnyMember]_vars

\* C30, amended: on the leader, from the send side, with more than one
\* member, upgradeNodesWithoutRaftRole is invoked if and only if some online
\* member of the heartbeat has raftID 0; an offline member without a raft
\* role does not count.  No other run of the task invokes it.
C30Step ==
    \A i \in Running :
        /\ Leaves(i, "roles") =>
              /\ ChecksRoles(refreshTasks[i])
              /\ Upgrades(i) <=>
                    \E m \in DOMAIN refreshTasks[i].hb.Members :
                        /\ refreshTasks[i].hb.Members[m].Online
                        /\ refreshTasks[i].hb.Members[m].RaftID = 0
        /\ (Leaves(i, "store") /\ ~ChecksRoles(refreshTasks[i])) => ~Upgrades(i)
        /\ (refreshTasks[i].pc = "lockUpgrade" /\ refreshTasks'[i] # NoTask) =>
              refreshTasks'[i].pc \in {"lockUpgrade", "upgrade"}

ThmC30 == [][C30Step]_vars

\* The only member without a raft role is offline: the task rebalances the
\* roles and will not go on to upgradeNodesWithoutRaftRole.
WitC30 ==
    \E i \in Running :
        /\ refreshTasks[i].pc = "rebalance"
        /\ ~refreshTasks[i].upgrade
        /\ \E m \in DOMAIN refreshTasks[i].hb.Members :
              /\ ~refreshTasks[i].hb.Members[m].Online
              /\ refreshTasks[i].hb.Members[m].RaftID = 0

(***************************************************************************)
(* The order, the unmounts and the result of Stop (SpecLife).              *)
(***************************************************************************)

\* The places of a step in a run of Stop.
Places(run, op) == {i \in DOMAIN run.log : run.log[i].op = op}

\* The steps that stop a task group.
TaskStops == {"stopClusterTasks", "tasks.Stop", "clusterTasks.Stop"}

\* The steps of the teardown named by the order of Stop, as the run took
\* them: the last kill of the gateway, the stops, the last close of the
\* cluster database, and so on.
TeardownPlaces(run) ==
    LET last(op) == IF op \in Ops(run) THEN <<Largest(Places(run, op))>> ELSE <<>>
    IN  last("gateway.Kill") \o last("tasks.Stop") \o last("clusterTasks.Stop")
        \o last("db.Cluster.Close") \o last("db.Node.Close")
        \o last("gateway.Shutdown") \o last("endpoints.Down")

\* The order of a run of Stop up to the closing of the cluster database:
\* the cancellation first, the cluster tasks and the handover next, the
\* teardown in the order of the source, with every component that exists.
StopOrder(run, d) ==
    /\ run.log[1].op = "shutdownCancel"
    /\ \A i \in DOMAIN run.log : run.log[i].op \in TaskStops => i > 1
    /\ "gateway" \in d =>
          /\ run.log[2].op = "stopClusterTasks"
          /\ run.log[3].op = "handoverMemberRole"
          /\ run.env.handoverErr <=> run.log[4].op = "gateway.Kill"
    /\ LET t == TeardownPlaces(run)
       IN  /\ \A i, j \in DOMAIN t : i < j => t[i] < t[j]
           /\ Len(t) = 2 + Cardinality(d \cap {"db.Cluster", "db.Node", "endpoints"})
                         + (IF "gateway" \in d THEN 2 ELSE 0)
           /\ \A i \in DOMAIN t : t[i] > Place(run, "miniod.StopAll")

\* C31 as stated: the order of Stop, and the cluster database is never
\* closed before both task groups have been stopped.
CexC31 ==
    stopRun.log # <<>> =>
        /\ StopOrder(stopRun, components)
        /\ \A i \in Places(stopRun, "db.Cluster.Close") :
              /\ i > Place(stopRun, "tasks.Stop")
              /\ i > Place(stopRun, "clusterTasks.Stop")

\* C31, amended: in every run of Stop shutdownCtx is cancelled first, then
\* the cluster tasks are stopped and the handover is attempted (the gateway
\* killed if it fails); later the gateway is killed, the general and the
\* cluster task group are stopped, the cluster database and the local one are
\* closed, the gateway is shut down and the endpoints are brought down.  No
\* task group is stopped before the cancellation.  The cluster database is
\* closed before the task groups are stopped only when the instances could
\* not be loaded from it: then the gateway is killed and the database closed
\* at once, after the cluster tasks were stopped and before the general task
\* group is, and the teardown closes it again after both.
ThmC31 ==
    stopRun.log # <<>> =>
        /\ StopOrder(stopRun, components)
        /\ \A i \in Places(stopRun, "db.Cluster.Close") :
              \/ /\ i > Place(stopRun, "tasks.Stop")
                 /\ i > Place(stopRun, "clusterTasks.Stop")
              \/ /\ stopRun.env.instances # "loaded"
                 /\ stopRun.log[i - 1].op = "gateway.Kill"
                 /\ stopRun.log[i - 2].op = "instancesOnDisk"
                 /\ i > Place(stopRun, "stopClusterTasks")
                 /\ i < Place(stopRun, "tasks.Stop")
                 /\ Largest(Places(stopRun, "db.Cluster.Close")) > Place(stopRun, "clusterTasks.Stop")

\* The instances are loaded from the disk: the cluster database is closed
\* before the general task group is stopped.
WitC31 ==
    /\ stopRun.log # <<>>
    /\ stopRun.env.instances = "onDisk"
    /\ stopRun.env.handoverErr
    /\ Place(stopRun, "db.Cluster.Close") < Place(stopRun, "tasks.Stop")
    /\ Cardinality(Places(stopRun, "db.Cluster.Close")) = 2

\* The steps of Stop that depend on the signal.
SignalOps == Drain \cup FullShutdownOps \cup {"time.After", "done"}

\* C32: Stop unmounts guestapi and shmounts if and only if the local
\* instances were loaded without error, from the database or from the disk,
\* and none of them is running when Stop looks, after the steps that depend
\* on the signal; never while a loaded instance is running, nor when the
\* cluster database was never opened or the instances could not be loaded.
ThmC32 ==
    stopRun.log # <<>> =>
        LET unmounted == "Unmount guestapi" \in Ops(stopRun)
            loaded == /\ "db.Cluster" \in components
                      /\ stopRun.env.instances \in {"loaded", "onDisk"}
        IN  /\ unmounted <=> (loaded /\ ~stopRun.env.running)
            /\ unmounted <=> "Unmount shmounts" \in Ops(stopRun)
            /\ unmounted =>
                  /\ Cardinality(Places(stopRun, "Unmount guestapi")) = 1
                  /\ Cardinality(Places(stopRun, "Unmount shmounts")) = 1
                  /\ Place(stopRun, "Unmount guestapi") < Place(stopRun, "Unmount shmounts")
                  /\ \A i \in DOMAIN stopRun.log :
                        stopRun.log[i].op \in SignalOps \cup {"LoadNodeAll", "instancesOnDisk"}
                            => i < Place(stopRun, "Unmount guestapi")
            /\ stopRun.env.running => ~unmounted
            /\ "db.Cluster" \notin components => ~unmounted
            /\ stopRun.env.instances = "failed" => ~unmounted

\* A full shutdown in which the instances were read from the disk and none
\* is running any more: the two file systems are unmounted.
WitC32 ==
    /\ stopRun.log # <<>>
    /\ stopRun.sig = "SIGPWR"
    /\ stopRun.env.instances = "onDisk"
    /\ "instancesShutdown" \in Ops(stopRun)
    /\ "Unmount shmounts" \in Ops(stopRun)

\* C33: with k tracked errors Stop returns the first of them, without suffix
\* for k = 1, and for k >= 2 followed by "(and N more errors)" where N is the
\* number of the errors other than the first, k - 1.
CexC33 ==
    stopRun.log # <<>> =>
        LET k == Len(stopRun.errs)
        IN  /\ k = 1 => stopRun.ret = [first |-> stopRun.errs[1], more |-> 0]
            /\ k >= 2 => stopRun.ret = [first |-> stopRun.errs[1], more |-> k - 1]

\* C38: Stop returns an error exactly when a tracked step of the teardown
\* failed; the failures that are only logged (the handover, the load of the
\* instances from the database or from the disk, the unmount of a pool) do
\* not change what Stop returns.
CexC38 ==
    stopRun.log # <<>> =>
        /\ stopRun.ret # NoError <=> stopRun.env.failing # {}
        /\ stopRun.ret # NoError => stopRun.ret.first \in stopRun.env.failing

(***************************************************************************)
(* The raft nodes a rejected heartbeat leaves (SpecHB).                    *)
(***************************************************************************)

\* C39: a heartbeat that heartbeatHandler answers with 400 (an empty raft
\* set, or a partial heartbeat on the leader) leaves the raft nodes kept
\* locally as they were: they are replaced only by the heartbeats the
\* handler accepts.
CexC39 ==
    hbRun # NoHeartbeat =>
        /\ hbRun.status = 400 => raftNodes = hbRun.before.raftNodes
        /\ raftNodes # hbRun.before.raftNodes => hbRun.status = 200

(***************************************************************************)
(* The flag of setupSharedMounts (SpecMounts).                             *)
(***************************************************************************)

\* C40: whenever daemon.SharedMountsSetup is true the mount at shmounts has
\* been marked shared and recursive: after a call that mounted the tmpfs and
\* failed to mark it, no later call sets the flag and returns nil without
\* the mark.
CexC40 ==
    /\ SharedMountsSetup.set => shmounts.shared
    /\ \A t \in MountThreads :
          (mountCalls.of[t].pc = "done" /\ mountCalls.of[t].ret = "nil")
              => shmounts.shared


(***************************************************************************)
(* Stop waiting for the daemon storage volumes (SpecVolumes): lines        *)
(* 1616-1642 statement by statement, with the goroutine of line 1628 as a  *)
(* second thread and the channel done of line 1627 as a rendezvous.        *)
(***************************************************************************)

\* The ticks of the clock that make time.Minute (line 1639).
Minute == 4

\* Stop has been called with sig; cluster tells whether d.db.Cluster is set.
\* worker is the position of the goroutine, failed whether the unmount gave
\* an error, clock the ticks since the select was entered.
NewVolumesRun(sig, cluster) ==
    [pc |-> "called", sig |-> sig, cluster |-> cluster, worker |-> "none",
     failed |-> FALSE, clock |-> 0, timedOut |-> FALSE]

\* The variables the passage leaves alone.
volumesFrame ==
    <<setupChan, oidcVerifier, globalConfig, clientCerts, pc, served, authCall,
      lifeVars, hbVars, muVars, SharedMountsSetup, sharedMountsLock, shmounts,
      mountCalls, nameRun, openRun>>

\* Lines 1571-1616: Stop cancels the shutdown context and reaches the test of
\* the signal (the steps in between are those of StopLoad, in SpecLife); any
\* signal but SIGPWR and SIGTERM passes the whole block.
VolumesEnter ==
    /\ volumesRun.pc = "called"
    /\ shutdownCtx' = "canceled"
    /\ volumesRun' =
          [volumesRun EXCEPT !.pc =
              IF ~FullShutdownOnReload(volumesRun.sig) THEN "continued"
              ELSE IF volumesRun.cluster THEN "waitForOperations"
              ELSE "spawn"]
    /\ UNCHANGED volumesFrame

\* Lines 1617-1623: waitForOperations returns, when the operations are done
\* or when the shutdown timeout of the configuration has passed.
VolumesWaitForOperations ==
    /\ volumesRun.pc = "waitForOperations"
    /\ volumesRun' = [volumesRun EXCEPT !.pc = "spawn"]
    /\ UNCHANGED <<shutdownCtx, volumesFrame>>

\* Lines 1627-1635, 1638: done is made without a buffer, the goroutine is
\* started and Stop enters the select, which starts the timer.
VolumesSpawn ==
    /\ volumesRun.pc = "spawn"
    /\ volumesRun' = [volumesRun EXCEPT !.pc = "select",
                                        !.worker = "unmounting",
                                        !.clock = 0]
    /\ UNCHANGED <<shutdownCtx, volumesFrame>>

\* Lines 1629-1632: daemonStorageVolumesUnmount returns in the goroutine,
\* with or without an error (which is logged); the goroutine is at the send
\* of line 1634. An unreachable storage backend never lets it return.
VolumesUnmountReturns ==
    /\ volumesRun.worker = "unmounting"
    /\ \E failed \in BOOLEAN :
          volumesRun' = [volumesRun EXCEPT !.worker = "send", !.failed = failed]
    /\ UNCHANGED <<shutdownCtx, volumesFrame>>

\* Time passes while Stop is in the select and the goroutine has nothing to
\* send: a send that is ready is received at once (VolumesDone), unless the
\* timer is ready too (VolumesTimeout), and then the select takes either.
VolumesTick ==
    /\ volumesRun.pc = "select"
    /\ volumesRun.worker = "unmounting"
    /\ volumesRun.clock < Minute
    /\ volumesRun' = [volumesRun EXCEPT !.clock = @ + 1]
    /\ UNCHANGED <<shutdownCtx, volumesFrame>>

\* Lines 1634 and 1641: the send on done meets the receive of the select; the
\* channel has no buffer, so the send needs Stop to be in the select.
VolumesDone ==
    /\ volumesRun.pc = "select"
    /\ volumesRun.worker = "send"
    /\ volumesRun' = [volumesRun EXCEPT !.pc = "continued", !.worker = "ended"]
    /\ UNCHANGED <<shutdownCtx, volumesFrame>>

\* Lines 1639-1640: the timer of time.After fires and Stop leaves the select.
VolumesTimeout ==
    /\ volumesRun.pc = "select"
    /\ volumesRun.clock = Minute
    /\ volumesRun' = [volumesRun EXCEPT !.pc = "continued", !.timedOut = TRUE]
    /\ UNCHANGED <<shutdownCtx, volumesFrame>>

\* Lines 1644-1741: the rest of Stop (StopShutdown to StopResult in SpecLife)
\* never looks at done again; Stop returns.
VolumesReturn ==
    /\ volumesRun.pc = "continued"
    /\ volumesRun' = [volumesRun EXCEPT !.pc = "returned"]
    /\ UNCHANGED <<shutdownCtx, volumesFrame>>

\* A running daemon whose Stop is called with one of the signals.
InitVolumes ==
    /\ setupChan = "closed"
    /\ shutdownCtx = "live"
    /\ oidcVerifier = FALSE
    /\ globalConfig = UnsetConfig
    /\ clientCerts = TrustTableB
    /\ pc = "idle"
    /\ served = NoOutcome
    /\ authCall = NoCall
    /\ QuietLife /\ QuietHB /\ QuietMu
    /\ SharedMountsSetup = FlagUnset
    /\ sharedMountsLock = ""
    /\ shmounts = NoMount
    /\ mountCalls = <<>>
    /\ nameRun = NoNameRun
    /\ volumesRun \in {NewVolumesRun(sig, cluster) :
                          sig \in Signals, cluster \in BOOLEAN}
    /\ openRun = NoOpenRun

NextVolumes ==
    \/ VolumesEnter
    \/ VolumesWaitForOperations
    \/ VolumesSpawn
    \/ VolumesUnmountReturns
    \/ VolumesTick
    \/ VolumesDone
    \/ VolumesTimeout
    \/ VolumesReturn

\* The scheduler runs every goroutine that can take a step, the clock
\* advances, and a send and a receive that are both ready meet; only the
\* unmount is free never to return.
FairVolumes ==
    /\ WF_vars(VolumesEnter)
    /\ WF_vars(VolumesWaitForOperations)
    /\ WF_vars(VolumesSpawn)
    /\ WF_vars(VolumesTick)
    /\ WF_vars(VolumesDone)
    /\ WF_vars(VolumesTimeout)
    /\ WF_vars(VolumesReturn)

SpecVolumes == InitVolumes /\ [][NextVolumes]_vars /\ FairVolumes

\* Stop in the select eventually continues.
StopLeavesSelect ==
    (volumesRun.pc = "select") ~> (volumesRun.pc = "continued")

\* C37: with SIGTERM or SIGPWR, Stop in the select eventually continues, and
\* the goroutine eventually ends whenever the unmount has returned, also when
\* the timer has fired before.
CexC37 ==
    /\ StopLeavesSelect
    /\ (volumesRun.worker = "send") ~> (volumesRun.worker = "ended")


(***************************************************************************)
(* init followed call by call (SpecStartup): the phases of init with the   *)
(* calls the barriers are about, and the loop of lines 1088-1144 that      *)
(* opens the cluster database statement by statement.                      *)
(***************************************************************************)

\* Largest number of other members that are behind when init starts.
MaxBehind == 2

\* Largest number of open attempts after which a notification still arrives
\* while members are behind.
MaxAttempts == 2

\* A call of init and the line it is made at.
Call(op, line) == [op |-> op, line |-> line]

\* The calls a phase makes that the barriers of init are about: legacy tells
\* whether <var>/lxc exists (line 1161), evacuated whether the local member
\* is evacuated (line 1517).
PhaseCalls(name, clustered, legacy, evacuated) ==
    CASE name = "certs"          -> <<Call("updateCertificateCacheFromLocal", 976)>>
      [] name = "endpoints"      -> <<Call("endpoints.Up", 1080)>>
      [] name = "legacyDir"      ->
           IF legacy
           THEN <<Call("instance.LoadNodeAll", 1170), Call("instancesShutdown", 1175),
                  Call("instancesStart", 1176)>>
           ELSE <<>>
      [] name = "storage"        -> <<Call("storageStartup", 1210)>>
      [] name = "networks"       -> <<Call("networkStartup", 1364)>>
      [] name = "instances"      -> <<Call("instance.LoadNodeAll", 1422)>>
      [] name = "closeSetupChan" -> <<Call("close(d.setupChan)", 1454)>>
      [] name = "clusterTasks"   ->
           IF clustered THEN <<Call("d.clusterTasks.Start", 1550)>> ELSE <<>>
      [] name = "tasks"          -> <<Call("d.tasks.Start", 1514)>>
      [] name = "instancesStart" ->
           IF evacuated THEN <<>> ELSE <<Call("instancesStart", 1518)>>
      [] name = "waitReady"      -> <<Call("d.waitReady.Cancel", 1525)>>
      [] OTHER                   -> <<>>

\* init is called: the node is clustered or not, the legacy directory exists
\* or not, the member is evacuated or not, and behind members of the cluster
\* have not been upgraded yet. hbGroup is the task group of line 1131,
\* lingering the heartbeat tasks of earlier groups that still run, notified
\* the upgrade notification that WaitUpgradeNotification waits for.
NewOpenRun(clustered, legacy, evacuated, behind) ==
    [pc |-> "running", phase |-> 0, err |-> "", log |-> <<>>,
     clustered |-> clustered, legacy |-> legacy, evacuated |-> evacuated,
     behind |-> behind, notified |-> FALSE, attempts |-> 0, result |-> "",
     dbCluster |-> "nil", gatewayCluster |-> FALSE, hbGroup |-> "none",
     lingering |-> 0, stopRequested |-> FALSE]

\* The phase init is about to enter.
NextPhase == InitPhases[openRun.phase + 1]

\* init is in the loop of lines 1088-1144.
InOpenLoop ==
    /\ openRun.pc \in {"running", "wait", "stop"}
    /\ openRun.phase + 1 = PhaseIndex("clusterDB")

\* The variables init leaves alone.
startupFrame ==
    <<shutdownCtx, oidcVerifier, globalConfig, clientCerts, pc, served, authCall,
      initRun, stopRun, hbVars, muVars, SharedMountsSetup, sharedMountsLock,
      shmounts, mountCalls, nameRun, volumesRun>>

\* init: the next phase, any but the opening of the cluster database,
\* succeeds.
StartupPhase ==
    /\ openRun.pc = "running"
    /\ openRun.phase < Len(InitPhases)
    /\ NextPhase # "clusterDB"
    /\ LET st == PhaseEffect(NextPhase, openRun.clustered,
                             [setupChan |-> setupChan, waitReady |-> waitReady,
                              taskGroups |-> taskGroups])
       IN  /\ openRun' =
                 [openRun EXCEPT
                     !.phase = @ + 1,
                     !.pc = IF openRun.phase + 1 = Len(InitPhases)
                            THEN "returned" ELSE "running",
                     !.log = @ \o PhaseCalls(NextPhase, openRun.clustered,
                                             openRun.legacy, openRun.evacuated)]
           /\ components' = components \cup ComponentsOf(NextPhase, FALSE)
           /\ setupChan' = st.setupChan
           /\ waitReady' = st.waitReady
           /\ taskGroups' = st.taskGroups
    /\ UNCHANGED startupFrame

\* init: the next phase, any but the opening of the cluster database,
\* returns an error.
StartupPhaseFails ==
    /\ openRun.pc = "running"
    /\ openRun.phase < Len(InitPhases)
    /\ NextPhase # "clusterDB"
    /\ NextPhase \notin NeverFailing
    /\ openRun' = [openRun EXCEPT !.pc = "failed", !.err = NextPhase]
    /\ UNCHANGED <<setupChan, waitReady, components, taskGroups, startupFrame>>

\* What db.OpenCluster returns (line 1115): ErrSomeNodesAreBehind as long as
\* a member is behind, nil once none is, or any other error.
OpenResults(behind) == IF behind > 0 THEN {"behind", "error"} ELSE {"nil", "error"}

\* The loop goes on after ErrSomeNodesAreBehind only when it has waited.
OpenOutcomeBehindFails(result) ==
    CASE result = "nil" -> "break"
      [] OTHER          -> "return"

\* Lines 1116-1143: what the loop does with the result of db.OpenCluster.
OpenOutcome(result) ==
    CASE result = "nil"    -> "break"
      [] result = "behind" -> "detour"
      [] OTHER             -> "return"

\* Lines 1088-1133 and 1143: one open attempt. With nil the loop is left;
\* with ErrSomeNodesAreBehind the half-open database is given to the gateway
\* and the heartbeat task is started in a group of its own, and init calls
\* WaitUpgradeNotification; with another error init returns it.
OpenCluster ==
    /\ openRun.pc = "running"
    /\ NextPhase = "clusterDB"
    /\ \E result \in OpenResults(openRun.behind) :
         LET tried == [openRun EXCEPT !.result = result,
                                      !.attempts = @ + 1,
                                      !.log = @ \o <<Call("db.OpenCluster", 1115)>>]
             outcome == OpenOutcome(result)
         IN  /\ openRun' =
                   CASE outcome = "break" ->
                          [tried EXCEPT !.phase = @ + 1, !.dbCluster = "open"]
                     [] outcome = "detour" ->
                          [tried EXCEPT !.pc = "wait", !.dbCluster = "half-open",
                                        !.gatewayCluster = TRUE,
                                        !.hbGroup = "running",
                                        !.log = @ \o <<Call("hbGroup.Start", 1133)>>]
                     [] OTHER ->
                          [tried EXCEPT !.pc = "failed", !.err = "clusterDB"]
             /\ components' =
                   IF outcome = "break"
                   THEN components \cup ComponentsOf("clusterDB", FALSE)
                   ELSE components
    /\ UNCHANGED <<setupChan, waitReady, taskGroups, startupFrame>>

\* Line 1134: the notification has arrived and WaitUpgradeNotification
\* returns.
WaitUpgradeNotification ==
    /\ openRun.pc = "wait"
    /\ openRun.notified
    /\ openRun' = [openRun EXCEPT !.pc = "stop", !.notified = FALSE]
    /\ UNCHANGED <<setupChan, waitReady, components, taskGroups, startupFrame>>

\* Lines 1135-1140: hbGroup.Stop(time.Second) returns, the heartbeat task
\* ended within the second or not (the error is dropped); gateway.Cluster is
\* set to nil, the half-open database is closed and the loop starts over.
OpenRetry ==
    /\ openRun.pc = "stop"
    /\ \E inTime \in BOOLEAN :
         openRun' = [openRun EXCEPT
                        !.pc = "running",
                        !.hbGroup = "stopped",
                        !.lingering = IF inTime THEN @ ELSE @ + 1,
                        !.gatewayCluster = FALSE,
                        !.dbCluster = "closed",
                        !.log = @ \o <<Call("hbGroup.Stop", 1135),
                                       Call("db.Cluster.Close", 1138)>>]
    /\ UNCHANGED <<setupChan, waitReady, components, taskGroups, startupFrame>>

\* A heartbeat task that was told to stop ends.
HeartbeatTaskEnds ==
    /\ openRun.lingering > 0
    /\ openRun' = [openRun EXCEPT !.lingering = @ - 1]
    /\ UNCHANGED <<setupChan, waitReady, components, taskGroups, startupFrame>>

\* Another member of the cluster is upgraded.
MemberUpgrades ==
    /\ openRun.behind > 0
    /\ openRun' = [openRun EXCEPT !.behind = @ - 1]
    /\ UNCHANGED <<setupChan, waitReady, components, taskGroups, startupFrame>>

\* A member that has opened its database notifies this one: once no member
\* is behind, and earlier too (a bounded number of times).
UpgradeNotification ==
    /\ ~openRun.notified
    /\ openRun.pc \notin {"failed", "returned"}
    /\ openRun.behind = 0 \/ openRun.attempts < MaxAttempts
    /\ openRun' = [openRun EXCEPT !.notified = TRUE]
    /\ UNCHANGED <<setupChan, waitReady, components, taskGroups, startupFrame>>

\* The caller of Init is asked to stop the daemon while init waits for the
\* notification; it calls Stop once Init has returned.
StopRequested ==
    /\ openRun.pc = "wait"
    /\ ~openRun.stopRequested
    /\ openRun' = [openRun EXCEPT !.stopRequested = TRUE]
    /\ UNCHANGED <<setupChan, waitReady, components, taskGroups, startupFrame>>

\* newDaemon on a node of a cluster whose other members may be behind.
InitStartup ==
    /\ setupChan = "open"
    /\ shutdownCtx = "live"
    /\ oidcVerifier = FALSE
    /\ globalConfig = UnsetConfig
    /\ clientCerts = TrustTableB
    /\ pc = "idle"
    /\ served = NoOutcome
    /\ authCall = NoCall
    /\ QuietLife /\ QuietHB /\ QuietMu
    /\ SharedMountsSetup = FlagUnset
    /\ sharedMountsLock = ""
    /\ shmounts = NoMount
    /\ mountCalls = <<>>
    /\ nameRun = NoNameRun
    /\ volumesRun = NoVolumesRun
    /\ openRun \in {NewOpenRun(clustered, legacy, evacuated, behind) :
                       clustered \in BOOLEAN, legacy \in BOOLEAN,
                       evacuated \in BOOLEAN, behind \in 0..MaxBehind}
    /\ ~openRun.clustered => openRun.behind = 0

NextStartup ==
    \/ StartupPhase
    \/ StartupPhaseFails
    \/ OpenCluster
    \/ WaitUpgradeNotification
    \/ OpenRetry
    \/ HeartbeatTaskEnds
    \/ MemberUpgrades
    \/ UpgradeNotification
    \/ StopRequested

SpecStartup == InitStartup /\ [][NextStartup]_vars


(***************************************************************************)
(* The barriers of init (SpecStartup).                                     *)
(***************************************************************************)

\* Every call of later in the log has a call of earlier before it.
Precedes(log, earlier, later) ==
    \A j \in DOMAIN log :
        log[j] \in later => \E i \in 1..(j - 1) : log[i] \in earlier

\* The calls that open the admission of requests and that follow it.
SetupChanClosed == {Call("close(d.setupChan)", 1454)}

\* The restart of the containers after <var>/lxc was renamed, and the
\* restore of the instances at the end of init.
RestartAfterRename == Call("instancesStart", 1176)

RestoreInstances == Call("instancesStart", 1518)

\* The barriers of init but for the start of the instances.
Barriers(log) ==
    /\ Precedes(log, {Call("updateCertificateCacheFromLocal", 976)},
                     {Call("endpoints.Up", 1080)})
    /\ Precedes(log, {Call("endpoints.Up", 1080)}, {Call("db.OpenCluster", 1115)})
    /\ Precedes(log, {Call("storageStartup", 1210)}, SetupChanClosed)
    /\ Precedes(log, {Call("networkStartup", 1364)}, SetupChanClosed)
    /\ Precedes(log, {Call("instance.LoadNodeAll", 1422)}, SetupChanClosed)
    /\ Precedes(log, SetupChanClosed, {Call("d.clusterTasks.Start", 1550)})
    /\ Precedes(log, SetupChanClosed, {Call("d.tasks.Start", 1514)})
    /\ Precedes(log, SetupChanClosed, {Call("d.waitReady.Cancel", 1525)})
    /\ setupChan = "open" =>
          /\ taskGroups.tasks # "running"
          /\ taskGroups.clusterTasks # "running"
          /\ waitReady = "live"
    /\ setupChan = "closed" <=> \E i \in DOMAIN log : log[i] \in SetupChanClosed

\* C34 as stated: the certificate cache is filled before the listeners are
\* opened, the listeners before the first open attempt of the cluster
\* database; storage pools, networks and instances are initialised before
\* setupChan is closed; setupChan is closed before either task group is
\* started, before instances are started and before waitReady is cancelled.
CexC34 ==
    /\ Barriers(openRun.log)
    /\ Precedes(openRun.log, SetupChanClosed, {RestartAfterRename, RestoreInstances})

\* C34, amended: as stated, with the instances started after setupChan is
\* closed being those the end of init restores (line 1518); the containers
\* restarted after the rename of a legacy lxc directory (line 1176) are
\* started while setupChan is open, after the cluster database is open.
ThmC34 ==
    /\ Barriers(openRun.log)
    /\ Precedes(openRun.log, SetupChanClosed, {RestoreInstances})
    /\ \A i \in DOMAIN openRun.log :
          openRun.log[i] = RestartAfterRename =>
              /\ openRun.legacy
              /\ \A j \in 1..i : openRun.log[j] \notin SetupChanClosed
              /\ openRun.log[i - 3].op = "db.OpenCluster"

\* init has returned nil on a clustered node with a legacy directory, after
\* a second open attempt, and has restored the instances.
WitC34 ==
    /\ openRun.pc = "returned"
    /\ openRun.clustered /\ openRun.legacy /\ ~openRun.evacuated
    /\ openRun.attempts >= 2
    /\ \E i \in DOMAIN openRun.log : openRun.log[i] = RestartAfterRename
    /\ \E i \in DOMAIN openRun.log : openRun.log[i] = RestoreInstances
    /\ waitReady = "canceled"


(***************************************************************************)
(* The upgrade-wait detour (SpecStartup).                                  *)
(***************************************************************************)

\* init is at the top of the loop, about to call db.OpenCluster.
AtOpenAttempt == openRun.pc = "running" /\ NextPhase = "clusterDB"

\* init has left the loop: the database is open, or init has failed there.
LeftOpenLoop ==
    \/ openRun.phase >= PhaseIndex("clusterDB")
    \/ openRun.pc = "failed" /\ openRun.err = "clusterDB"

\* A heartbeat task of a temporary group is running.
HeartbeatTaskRunning == openRun.hbGroup = "running" \/ openRun.lingering > 0

\* C35: while setupChan is open a task runs only inside the detour; in the
\* detour the temporary heartbeat group runs on the half-open database; at
\* the start of every open attempt and when the loop is left, no temporary
\* heartbeat task is running, gateway.Cluster is nil and the half-open
\* database is closed.
CexC35 ==
    /\ (/\ setupChan = "open"
        /\ \/ taskGroups.tasks = "running"
           \/ taskGroups.clusterTasks = "running"
           \/ HeartbeatTaskRunning)
          => (InOpenLoop /\ openRun.pc \in {"wait", "stop"})
    /\ openRun.pc \in {"wait", "stop"} =>
          /\ openRun.hbGroup = "running"
          /\ openRun.gatewayCluster
          /\ openRun.dbCluster = "half-open"
    /\ AtOpenAttempt =>
          /\ ~HeartbeatTaskRunning
          /\ ~openRun.gatewayCluster
          /\ openRun.dbCluster \in {"nil", "closed"}
    /\ LeftOpenLoop => ~HeartbeatTaskRunning


(***************************************************************************)
(* The end of the detour (SpecStartupFair).                                *)
(***************************************************************************)

\* Every call of init returns (the open attempt within its timeouts, the stop
\* of the heartbeat group within its second, every phase); the other members
\* are upgraded in the end and the notification is delivered. The heartbeat
\* task and the request to stop are left free.
FairStartup ==
    /\ WF_vars(StartupPhase)
    /\ WF_vars(OpenCluster)
    /\ WF_vars(WaitUpgradeNotification)
    /\ WF_vars(OpenRetry)
    /\ WF_vars(MemberUpgrades)
    /\ WF_vars(UpgradeNotification)

SpecStartupFair == SpecStartup /\ FairStartup

\* Init has returned to its caller, which acts on a request to stop.
InitHasReturned == openRun.pc \in {"failed", "returned"}

==============================================================================
